---------------------------- MODULE Spec2Model ----------------------------
(***************************************************************************)
(* A model of the sigma-rust rule evaluator: field values and their        *)
(* string comparisons (with the process-wide wildcard-regex cache), events, *)
(* fields, selections, the condition lexer and parser, and detections.     *)
(*                                                                         *)
(* Strings are sequences of one-character strings.  Operations that read   *)
(* or write PATTERN_CACHE take the cache as their first argument and       *)
(* return a record [r |-> result, c |-> cache afterwards].                 *)
(***************************************************************************)
EXTENDS Integers, Sequences, FiniteSets, TLC

VARIABLES
    cache,  \* PATTERN_CACHE: raw pattern string -> compiled regex
    pc,     \* position of the calling program: "idle" or "returned"
    arg,    \* the operation in progress and its inputs
    ret     \* what the operation returned

vars == <<cache, pc, arg, ret>>

-----------------------------------------------------------------------------
(* Bounds of the model.                                                    *)

MaxTarget == 3      \* longest target string of a value-level comparison

-----------------------------------------------------------------------------
(* Characters and strings.                                                 *)

UpperLetters == <<"A", "B", "C", "D", "E", "F", "G", "H", "I", "J", "K", "L", "M",
                  "N", "O", "P", "Q", "R", "S", "T", "U", "V", "W", "X", "Y", "Z">>
LowerLetters == <<"a", "b", "c", "d", "e", "f", "g", "h", "i", "j", "k", "l", "m",
                  "n", "o", "p", "q", "r", "s", "t", "u", "v", "w", "x", "y", "z">>

\* char::to_lowercase, on ASCII.
LowerChar(ch) ==
    IF \E i \in 1..26 : UpperLetters[i] = ch
    THEN LowerLetters[CHOOSE i \in 1..26 : UpperLetters[i] = ch]
    ELSE ch

\* str::to_lowercase
to_lowercase(s) == [i \in 1..Len(s) |-> LowerChar(s[i])]

\* str::starts_with
StrStartsWith(a, b) == Len(b) <= Len(a) /\ SubSeq(a, 1, Len(b)) = b

\* str::ends_with
StrEndsWith(a, b) ==
    Len(b) <= Len(a) /\ SubSeq(a, Len(a) - Len(b) + 1, Len(a)) = b

\* str::contains
StrContains(a, b) ==
    \E i \in 0..(Len(a) - Len(b)) : SubSeq(a, i + 1, i + Len(b)) = b

SeqsUpTo(S, n) == UNION {[1..k -> S] : k \in 0..n}

-----------------------------------------------------------------------------
(* FieldValue.                                                             *)

Str(s) == [tag |-> "String", v |-> s]
IntV(n) == [tag |-> "Int", v |-> n]
Unsigned(n) == [tag |-> "Unsigned", v |-> n]
Float(n) == [tag |-> "Float", v |-> n]
Boolean(b) == [tag |-> "Boolean", v |-> b]
Null == [tag |-> "Null", v |-> 0]

\* A mutant of ValueEq: Null is equal to nothing, not even to Null.
ValueEqNullNever(a, b) == a.tag = b.tag /\ a.tag # "Null" /\ a.v = b.v

\* impl PartialEq for FieldValue: equal tags and equal payloads.
ValueEq(a, b) == a.tag = b.tag /\ a.v = b.v


-----------------------------------------------------------------------------
(* Wildcard patterns compiled to regular expressions.  A compiled regex is *)
(* [ci, anchS, anchE, toks]: the (?i) flag, the ^ and $ anchors, and the   *)
(* body as a sequence of tokens: a literal character, "." or ".*".         *)

Lit(ch) == [t |-> "lit", ch |-> ch]
AnyChar == [t |-> "any", ch |-> ""]
AnyRun == [t |-> "star", ch |-> ""]

CiPrefix == <<"(", "?", "i", ")">>

\* The loop of convert_to_regex over the pattern's characters; `found` is
\* found_non_escape_backslash.
RECURSIVE ConvertChars(_, _)
ConvertChars(chars, found) ==
    IF chars = <<>> THEN <<>>
    ELSE LET ch == Head(chars)
             rest == Tail(chars)
         IN  IF ch = "\\" /\ ~found
             THEN IF rest # <<>> /\ Head(rest) \in {"*", "?"}
                  THEN <<Lit(Head(rest))>> \o ConvertChars(Tail(rest), found)
                  ELSE <<Lit(ch)>> \o ConvertChars(rest, IF rest # <<>> THEN TRUE ELSE found)
             ELSE IF ch = "*" THEN <<AnyRun>> \o ConvertChars(rest, found)
             ELSE IF ch = "?" THEN <<AnyChar>> \o ConvertChars(rest, found)
             ELSE <<Lit(ch)>> \o ConvertChars(rest, FALSE)

\* case_compare: the pattern gets the (?i) flag unless `cased`.
case_compare(cased) == ~cased

\* convert_to_regex up to the compilation: the regex the pattern becomes.
CompileRegex(pattern_type, pattern, cased) ==
    LET hasCi == StrStartsWith(pattern, CiPrefix)
        body == IF hasCi THEN SubSeq(pattern, 5, Len(pattern)) ELSE pattern
    IN  [ci |-> hasCi \/ case_compare(cased),
         anchS |-> pattern_type \notin {"Contains", "EndsWith"},
         anchE |-> pattern_type \notin {"Contains", "StartsWith"},
         toks |-> ConvertChars(body, FALSE)]

\* One literal of a regex against one character of the text.
LitMatches(ci, ch, x) == IF ci THEN LowerChar(ch) = LowerChar(x) ELSE ch = x

\* The regex body matches the whole of s.
RECURSIVE BodyMatches(_, _, _)
BodyMatches(ci, toks, s) ==
    IF toks = <<>> THEN s = <<>>
    ELSE LET tk == Head(toks)
         IN  CASE tk.t = "star" ->
                    \E k \in 0..Len(s) :
                        BodyMatches(ci, Tail(toks), SubSeq(s, k + 1, Len(s)))
               [] tk.t = "any" ->
                    s # <<>> /\ BodyMatches(ci, Tail(toks), Tail(s))
               [] OTHER ->
                    /\ s # <<>>
                    /\ LitMatches(ci, tk.ch, Head(s))
                    /\ BodyMatches(ci, Tail(toks), Tail(s))

\* Regex::is_match: the regex matches somewhere in the target, as anchored.
RegexIsMatch(re, target) ==
    \E i \in 0..Len(target) : \E j \in i..Len(target) :
        /\ re.anchS => i = 0
        /\ re.anchE => j = Len(target)
        /\ BodyMatches(re.ci, re.toks, SubSeq(target, i + 1, j))

EmptyCache == [p \in {} |-> 0]

\* get_regex
get_regex(c, pattern) ==
    IF pattern \in DOMAIN c THEN <<c[pattern]>> ELSE <<>>

\* insert_regex: HashMap::insert replaces an entry of the same key.
insert_regex(c, pattern, re) ==
    [p \in (DOMAIN c) \cup {pattern} |-> IF p = pattern THEN re ELSE c[p]]

-----------------------------------------------------------------------------
(* String comparisons of FieldValue.  self is the event's value (target),  *)
(* other the rule's compare-value (pattern).                               *)

\* contains_unescaped_wildcards
RECURSIVE contains_unescaped_wildcards(_)
contains_unescaped_wildcards(value) ==
    IF value = <<>> THEN FALSE
    ELSE LET ch == Head(value)
             rest == Tail(value)
         IN  IF ch = "\\"
             THEN IF rest # <<>> /\ Head(rest) \in {"*", "?", "\\"}
                  THEN contains_unescaped_wildcards(Tail(rest))
                  ELSE contains_unescaped_wildcards(rest)
             ELSE IF ch \in {"*", "?"} THEN TRUE
             ELSE contains_unescaped_wildcards(rest)

\* pattern_to_regex_match, with convert_to_regex's insert into the cache.
pattern_to_regex_match(c, pattern_type, pattern, target, cased) ==
    LET Cached(hit) ==
            IF hit # <<>> THEN [r |-> RegexIsMatch(hit[1], target), c |-> c]
            ELSE LET Compiled(re) ==
                         [r |-> RegexIsMatch(re, target), c |-> insert_regex(c, pattern, re)]
                 IN  Compiled(CompileRegex(pattern_type, pattern, cased))
    IN  Cached(get_regex(c, pattern))

Pure(c, b) == [r |-> b, c |-> c]

\* FieldValue::contains
contains(c, self, other, cased) ==
    IF self.tag = "String" /\ other.tag = "String"
    THEN IF contains_unescaped_wildcards(other.v)
         THEN pattern_to_regex_match(c, "Contains", other.v, self.v, cased)
         ELSE IF cased THEN Pure(c, StrContains(self.v, other.v))
         ELSE Pure(c, StrContains(to_lowercase(self.v), to_lowercase(other.v)))
    ELSE Pure(c, FALSE)

\* FieldValue::starts_with
starts_with(c, self, other, cased) ==
    IF self.tag = "String" /\ other.tag = "String"
    THEN IF contains_unescaped_wildcards(other.v)
         THEN pattern_to_regex_match(c, "StartsWith", other.v, self.v, cased)
         ELSE IF cased THEN Pure(c, StrStartsWith(self.v, other.v))
         ELSE Pure(c, StrStartsWith(to_lowercase(self.v), to_lowercase(other.v)))
    ELSE Pure(c, FALSE)

\* FieldValue::ends_with
ends_with(c, self, other, cased) ==
    IF self.tag = "String" /\ other.tag = "String"
    THEN IF contains_unescaped_wildcards(other.v)
         THEN pattern_to_regex_match(c, "EndsWith", other.v, self.v, cased)
         ELSE IF cased THEN Pure(c, StrEndsWith(self.v, other.v))
         ELSE Pure(c, StrEndsWith(to_lowercase(self.v), to_lowercase(other.v)))
    ELSE Pure(c, FALSE)

\* FieldValue::is_equal
is_equal(c, self, other, cased) ==
    IF self.tag = "String" /\ other.tag = "String"
    THEN IF contains_unescaped_wildcards(other.v)
         THEN pattern_to_regex_match(c, "Contains", other.v, self.v, cased)
         ELSE IF cased THEN Pure(c, self.v = other.v)
         ELSE Pure(c, to_lowercase(self.v) = to_lowercase(other.v))
    ELSE Pure(c, ValueEq(self, other))

\* i64::to_string / u64::to_string of a natural number.
RECURSIVE NatToString(_)
NatToString(n) ==
    LET d == <<"0", "1", "2", "3", "4", "5", "6", "7", "8", "9">>[(n % 10) + 1]
    IN  IF n < 10 THEN <<d>> ELSE NatToString(n \div 10) \o <<d>>

\* FieldValue::value_to_string.  A Float holds a whole number here, which Rust
\* prints without a fraction.
value_to_string(val) ==
    CASE val.tag = "String" -> val.v
      [] val.tag \in {"Int", "Float", "Unsigned"} ->
            IF val.v < 0 THEN <<"-">> \o NatToString(-val.v) ELSE NatToString(val.v)
      [] val.tag = "Boolean" ->
            IF val.v THEN <<"t", "r", "u", "e">> ELSE <<"f", "a", "l", "s", "e">>
      [] OTHER -> <<"n", "u", "l", "l">>

-----------------------------------------------------------------------------
(* Events.  An EventValue is a scalar, a sequence or a nested map; an     *)
(* Event is a map from key strings to EventValues.  A lookup returns <<>>  *)
(* (None) or <<value>> (Some).                                             *)

Scalar(val) == [kind |-> "Value", v |-> val]
SequenceOf(items) == [kind |-> "Sequence", items |-> items]
MapOf(m) == [kind |-> "Map", m |-> m]

EmptyMap == [k \in {} |-> 0]

\* HashMap::get
MapGet(m, key) == IF key \in DOMAIN m THEN <<m[key]>> ELSE <<>>

\* str::split_once('.'): <<>> or <<head, tail>>
split_once(s) ==
    IF \E i \in 1..Len(s) : s[i] = "."
    THEN LET i == CHOOSE k \in 1..Len(s) :
                      s[k] = "." /\ \A j \in 1..(k - 1) : s[j] # "."
         IN  <<SubSeq(s, 1, i - 1), SubSeq(s, i + 1, Len(s))>>
    ELSE <<>>

\* A mutant of GetNested: the loop is left after its first round.
GetNestedOnce(current, nested_key) ==
    LET Split(sp) ==
            IF sp = <<>> THEN <<>>
            ELSE LET Found(head) ==
                         IF head # <<>> /\ head[1].kind = "Map"
                         THEN IF sp[2] \in DOMAIN head[1].m
                              THEN <<head[1].m[sp[2]]>>
                              ELSE <<>>
                         ELSE <<>>
                 IN  Found(MapGet(current, sp[1]))
    IN  Split(split_once(nested_key))

\* The while loop of Event::get.
RECURSIVE GetNested(_, _)
GetNested(current, nested_key) ==
    LET Split(sp) ==
            IF sp = <<>> THEN <<>>
            ELSE LET Found(head) ==
                         IF head # <<>> /\ head[1].kind = "Map"
                         THEN IF sp[2] \in DOMAIN head[1].m
                              THEN <<head[1].m[sp[2]]>>
                              ELSE GetNested(head[1].m, sp[2])
                         ELSE <<>>
                 IN  Found(MapGet(current, sp[1]))
    IN  Split(split_once(nested_key))

\* A mutant of EventGet: the literal top-level key is not tried first.
EventGetNoLiteral(event, key) == GetNested(event, key)

\* Event::get
EventGet(event, key) ==
    IF key \in DOMAIN event THEN <<event[key]>> ELSE GetNested(event, key)

\* A mutant of EventValueContains: only top-level scalars are searched.
RECURSIVE EventValueContainsShallow(_, _)
EventValueContainsShallow(ev, s) ==
    ev.kind = "Value" /\ StrContains(value_to_string(ev.v), s)

\* EventValue::contains
RECURSIVE EventValueContains(_, _)
EventValueContains(ev, s) ==
    CASE ev.kind = "Value" -> StrContains(value_to_string(ev.v), s)
      [] ev.kind = "Sequence" ->
            \E i \in 1..Len(ev.items) : EventValueContains(ev.items[i], s)
      [] OTHER ->
            \E k \in DOMAIN ev.m : EventValueContains(ev.m[k], s)

-----------------------------------------------------------------------------
(* Modifier parsing.  A field name with modifiers, "name|m1|m2", is held    *)
(* as its name and the sequence of its pipe suffixes.                      *)

\* str::to_lowercase on the suffix words the model spells with capitals.
LowerWord(w) ==
    CASE w = "ALL" -> "all"
      [] w = "FieldRef" -> "fieldref"
      [] w = "Exists" -> "exists"
      [] w = "StartsWith" -> "startswith"
      [] w = "Base64" -> "base64"
      [] OTHER -> w

\* MatchModifier::from_str accepts the lowercase names of its variants.
MatchModifierNames ==
    {"contains", "startswith", "endswith", "exists", "gt", "gte", "lt", "lte",
     "re", "cidr"}

\* ValueTransformer::from_str accepts the lowercase names of its variants.
ValueTransformerNames == {"base64", "base64offset", "windash", "cased"}

DefaultModifier ==
    [match_all |-> FALSE, fieldref |-> FALSE, cased |-> FALSE,
     match_modifier |-> "None", value_transformer |-> <<>>]

NoError == <<>>

\* A mutant of ModifierLoop: the fieldref suffix is not recognised as a flag.
RECURSIVE ModifierLoopNoFieldref(_, _, _)
ModifierLoopNoFieldref(words, result, utf16_modifier) ==
    IF words = <<>> THEN [err |-> NoError, m |-> result, utf16 |-> utf16_modifier]
    ELSE LET s == LowerWord(Head(words))
             rest == Tail(words)
             Fail(e) == [err |-> e, m |-> result, utf16 |-> utf16_modifier]
         IN  IF s = "all"
             THEN ModifierLoopNoFieldref(rest, [result EXCEPT !.match_all = TRUE], utf16_modifier)
             ELSE IF s \in MatchModifierNames
             THEN IF result.match_modifier # "None"
                  THEN Fail(<<"ConflictingModifiers", s, result.match_modifier>>)
                  ELSE ModifierLoopNoFieldref(rest, [result EXCEPT !.match_modifier = s],
                                              utf16_modifier)
             ELSE IF result.match_modifier = "exists"
             THEN [err |-> NoError, m |-> result, utf16 |-> utf16_modifier]
             ELSE IF s \in {"utf16le", "utf16be"}
             THEN IF utf16_modifier # "None"
                  THEN Fail(<<"ConflictingModifiers", s, utf16_modifier>>)
                  ELSE ModifierLoopNoFieldref(rest, result, s)
             ELSE IF s \in {"utf16", "wide"}
             THEN Fail(<<"AmbiguousUtf16Modifier", s>>)
             ELSE IF s \in ValueTransformerNames
             THEN ModifierLoopNoFieldref(rest,
                      [result EXCEPT !.value_transformer =
                           Append(@, [t |-> s, utf16 |-> "None"])],
                      utf16_modifier)
             ELSE Fail(<<"UnknownModifier", s>>)

\* The loop of Modifier::from_str over the pipe suffixes.
RECURSIVE ModifierLoop(_, _, _)
ModifierLoop(words, result, utf16_modifier) ==
    IF words = <<>> THEN [err |-> NoError, m |-> result, utf16 |-> utf16_modifier]
    ELSE LET s == LowerWord(Head(words))
             rest == Tail(words)
             Fail(e) == [err |-> e, m |-> result, utf16 |-> utf16_modifier]
         IN  IF s = "all"
             THEN ModifierLoop(rest, [result EXCEPT !.match_all = TRUE], utf16_modifier)
             ELSE IF s = "fieldref"
             THEN ModifierLoop(rest, [result EXCEPT !.fieldref = TRUE], utf16_modifier)
             ELSE IF s \in MatchModifierNames
             THEN IF result.match_modifier # "None"
                  THEN Fail(<<"ConflictingModifiers", s, result.match_modifier>>)
                  ELSE ModifierLoop(rest, [result EXCEPT !.match_modifier = s],
                                    utf16_modifier)
             ELSE IF result.match_modifier = "exists"
             THEN [err |-> NoError, m |-> result, utf16 |-> utf16_modifier]
             ELSE IF s \in {"utf16le", "utf16be"}
             THEN IF utf16_modifier # "None"
                  THEN Fail(<<"ConflictingModifiers", s, utf16_modifier>>)
                  ELSE ModifierLoop(rest, result, s)
             ELSE IF s \in {"utf16", "wide"}
             THEN Fail(<<"AmbiguousUtf16Modifier", s>>)
             ELSE IF s \in ValueTransformerNames
             THEN ModifierLoop(rest,
                      [result EXCEPT !.value_transformer =
                           Append(@, [t |-> s, utf16 |-> "None"])],
                      utf16_modifier)
             ELSE Fail(<<"UnknownModifier", s>>)

IsBase64(t) == t.t \in {"base64", "base64offset"}

\* ValueTransformer's Display: the variant's name in lowercase.
TransformerToString(t) == t.t

\* The last transformer of vt that satisfies P, as a string, or "".
LastNamed(vt, P(_)) ==
    IF \E i \in 1..Len(vt) : P(vt[i])
    THEN TransformerToString(
             vt[CHOOSE i \in 1..Len(vt) : P(vt[i]) /\ \A j \in (i + 1)..Len(vt) : ~P(vt[j])])
    ELSE ""

\* is_valid_transformers
is_valid_transformers(vt) ==
    LET NotBase64(t) == ~IsBase64(t)
        base64_or_offset_present == \E i \in 1..Len(vt) : IsBase64(vt[i])
        windash_or_cased_present == \E i \in 1..Len(vt) : ~IsBase64(vt[i])
    IN  <<~(base64_or_offset_present /\ windash_or_cased_present),
          LastNamed(vt, IsBase64), LastNamed(vt, NotBase64)>>

\* Modifier::from_str: [err |-> NoError, m |-> the modifier] or [err |-> error].
ModifierFromStr(words) ==
    LET Fail(e) == [err |-> e, m |-> DefaultModifier]
        Looped(looped, vt) ==
            LET \* the utf16 pass stops at the first transformer that is not base64
                utf16Bad == \E i \in 1..Len(vt) : ~IsBase64(vt[i])
                Passed(vt2) ==
                    LET Validated(valid) ==
                            IF ~valid[1]
                            THEN Fail(<<"ConflictingModifiers", valid[2], valid[3]>>)
                            ELSE IF /\ looped.m.match_modifier \in {"re", "cidr", "exists"}
                                    /\ vt2 # <<>>
                            THEN Fail(<<"StandaloneViolation", looped.m.match_modifier>>)
                            ELSE [err |-> NoError,
                                  m |-> [looped.m EXCEPT !.value_transformer = vt2]]
                    IN  Validated(is_valid_transformers(vt2))
            IN  IF looped.err # NoError THEN Fail(looped.err)
                ELSE IF looped.utf16 # "None" /\ (utf16Bad \/ vt = <<>>)
                THEN Fail(<<"Utf16WithoutBase64">>)
                ELSE Passed(IF looped.utf16 = "None" THEN vt
                            ELSE [i \in 1..Len(vt) |-> [vt[i] EXCEPT !.utf16 = looped.utf16]])
        Run(looped) == Looped(looped, looped.m.value_transformer)
    IN  Run(ModifierLoop(words, DefaultModifier, "None"))

-----------------------------------------------------------------------------
(* Fields.  A field is [name, values, modifier, exists]; exists is "None", *)
(* "Some(true)" or "Some(false)".                                          *)

\* Characters in ASCII order, for the ordering of strings.
AsciiOrder ==
    <<"*", "-", ".", "0", "1", "2", "3", "4", "5", "6", "7", "8", "9", ":", "?">>
    \o UpperLetters \o <<"\\">> \o LowerLetters

CharRank(ch) == CHOOSE i \in 1..Len(AsciiOrder) : AsciiOrder[i] = ch

\* str::partial_cmp: lexicographic by character.
RECURSIVE StrCmp(_, _)
StrCmp(a, b) ==
    IF a = <<>> /\ b = <<>> THEN "Equal"
    ELSE IF a = <<>> THEN "Less"
    ELSE IF b = <<>> THEN "Greater"
    ELSE IF Head(a) = Head(b) THEN StrCmp(Tail(a), Tail(b))
    ELSE IF CharRank(Head(a)) < CharRank(Head(b)) THEN "Less" ELSE "Greater"

\* A mutant of partial_cmp: numbers are ordered by magnitude across tags.
partial_cmp_by_magnitude(a, b) ==
    IF a.tag \in {"Int", "Unsigned", "Float"} /\ b.tag \in {"Int", "Unsigned", "Float"}
    THEN IF a.v < b.v THEN "Less" ELSE IF a.v = b.v THEN "Equal" ELSE "Greater"
    ELSE IF a.tag # b.tag THEN "None"
    ELSE CASE a.tag = "String" -> StrCmp(a.v, b.v)
           [] a.tag = "Boolean" ->
                 IF a.v = b.v THEN "Equal" ELSE IF b.v THEN "Less" ELSE "Greater"
           [] OTHER -> "Equal"

\* impl PartialOrd for FieldValue: "None" between different tags.
partial_cmp(a, b) ==
    IF a.tag # b.tag THEN "None"
    ELSE CASE a.tag = "String" -> StrCmp(a.v, b.v)
           [] a.tag \in {"Int", "Unsigned", "Float"} ->
                 IF a.v < b.v THEN "Less" ELSE IF a.v = b.v THEN "Equal" ELSE "Greater"
           [] a.tag = "Boolean" ->
                 IF a.v = b.v THEN "Equal" ELSE IF b.v THEN "Less" ELSE "Greater"
           [] OTHER -> "Equal"

\* The field-level flag that suppresses case folding: the `cased` suffix.
FieldCased(field) ==
    \/ field.modifier.cased
    \/ \E i \in 1..Len(field.modifier.value_transformer) :
           field.modifier.value_transformer[i].t = "cased"

\* Field::compare.  Fields with re or cidr are not part of the model.
Compare(c, field, target, value) ==
    LET mm == field.modifier.match_modifier
        cased == FieldCased(field)
    IN  CASE mm = "contains" -> contains(c, target, value, cased)
          [] mm = "startswith" -> starts_with(c, target, value, cased)
          [] mm = "endswith" -> ends_with(c, target, value, cased)
          [] mm = "gt" -> Pure(c, partial_cmp(target, value) = "Greater")
          [] mm = "gte" -> Pure(c, partial_cmp(target, value) \in {"Greater", "Equal"})
          [] mm = "lt" -> Pure(c, partial_cmp(target, value) = "Less")
          [] mm = "lte" -> Pure(c, partial_cmp(target, value) \in {"Less", "Equal"})
          [] mm \in {"None", "exists"} -> is_equal(c, target, value, cased)

\* A mutant of EvaluateValues: after the loop the result is always false.
RECURSIVE EvaluateValuesEndFalse(_, _, _, _)
EvaluateValuesEndFalse(c, field, target, vals) ==
    IF vals = <<>> THEN Pure(c, FALSE)
    ELSE LET fired == Compare(c, field, target, Head(vals))
         IN  IF fired.r /\ ~field.modifier.match_all THEN Pure(fired.c, TRUE)
             ELSE IF ~fired.r /\ field.modifier.match_all THEN Pure(fired.c, FALSE)
             ELSE EvaluateValuesEndFalse(fired.c, field, target, Tail(vals))

\* The loop of Field::evaluate over the compare-values.
RECURSIVE EvaluateValues(_, _, _, _)
EvaluateValues(c, field, target, vals) ==
    IF vals = <<>> THEN Pure(c, field.modifier.match_all)
    ELSE LET Compared(fired) ==
                 IF fired.r /\ ~field.modifier.match_all THEN Pure(fired.c, TRUE)
                 ELSE IF ~fired.r /\ field.modifier.match_all THEN Pure(fired.c, FALSE)
                 ELSE EvaluateValues(fired.c, field, target, Tail(vals))
         IN  Compared(Compare(c, field, target, Head(vals)))

\* With fieldref, a compare-value names a field of the event: <<its scalar>>,
\* or <<>> when the lookup misses or yields a non-scalar.
Dereference(event, val) ==
    IF val.tag = "String"
    THEN LET Looked(got) ==
                 IF got # <<>> /\ got[1].kind = "Value" THEN <<got[1].v>> ELSE <<>>
         IN  Looked(EventGet(event, val.v))
    ELSE <<>>

\* The compare-values the loop compares the target with: the literal
\* values, or with fieldref the dereferenced ones, the unresolved skipped.
RECURSIVE ResolvedValues(_, _, _)
ResolvedValues(fieldref, event, vals) ==
    IF vals = <<>> THEN <<>>
    ELSE IF ~fieldref THEN vals
    ELSE Dereference(event, Head(vals)) \o ResolvedValues(fieldref, event, Tail(vals))

\* Field::evaluate
FieldEvaluate(c, field, event) ==
    LET Looked(got) ==
            IF got = <<>> THEN Pure(c, field.exists = "Some(false)")
            ELSE IF field.exists = "Some(true)" THEN Pure(c, TRUE)
            ELSE IF got[1].kind # "Value" THEN Pure(c, FALSE)
            ELSE IF field.values = <<>> THEN Pure(c, TRUE)
            ELSE EvaluateValues(c, field, got[1].v,
                                ResolvedValues(field.modifier.fieldref, event, field.values))
    IN  Looked(EventGet(event, field.name))

\* Field::new: parse the modifiers, then bootstrap the values.
\* [err |-> NoError, f |-> the field] or [err |-> error].
FieldNew(name, words, values) ==
    LET Parsed(parsed, m) ==
            LET Made(field) ==
                    LET Fail(e) == [err |-> e, f |-> field]
                    IN  IF parsed.err # NoError THEN Fail(parsed.err)
                        ELSE IF values = <<>> THEN Fail(<<"EmptyValues", name>>)
                        ELSE IF /\ m.match_modifier \in {"contains", "startswith", "endswith"}
                                /\ \E i \in 1..Len(values) : values[i].tag # "String"
                        THEN Fail(<<"InvalidValueForStringModifier">>)
                        ELSE IF m.match_modifier = "exists"
                        THEN IF Len(values) = 1 /\ values[1].tag = "Boolean"
                             THEN [err |-> NoError,
                                   f |-> [field EXCEPT !.exists =
                                              IF values[1].v THEN "Some(true)"
                                              ELSE "Some(false)"]]
                             ELSE Fail(<<"InvalidValueForExists">>)
                        ELSE [err |-> NoError, f |-> field]
            IN  Made([name |-> name, values |-> values, modifier |-> m, exists |-> "None"])
        Run(parsed) == Parsed(parsed, parsed.m)
    IN  Run(ModifierFromStr(words))

-----------------------------------------------------------------------------
(* The calling program.  It calls one operation at a time (idle ->         *)
(* returned) and then goes on to its next call (returned -> idle).  The    *)
(* cache lives as long as the process; arg.c is the cache as the call      *)
(* found it.                                                               *)

NoArg == [op |-> "none"]
NoRet == [op |-> "none"]

Start ==
    /\ cache = EmptyCache
    /\ pc = "idle"
    /\ arg = NoArg
    /\ ret = NoRet

\* The caller drops the result and goes on.
Continue ==
    /\ pc = "returned"
    /\ pc' = "idle"
    /\ arg' = NoArg
    /\ ret' = NoRet
    /\ UNCHANGED cache

-----------------------------------------------------------------------------
(* Value-level comparisons, called directly.                               *)

ValueOps == {"is_equal", "contains", "starts_with", "ends_with"}

ApplyValueOp(c, op, self, other, cased) ==
    CASE op = "is_equal" -> is_equal(c, self, other, cased)
      [] op = "contains" -> contains(c, self, other, cased)
      [] op = "starts_with" -> starts_with(c, self, other, cased)
      [] op = "ends_with" -> ends_with(c, self, other, cased)

\* One comparison of a target from T with a compare-value from P.
ValueCall(T, P) ==
    /\ pc = "idle"
    /\ \E op \in ValueOps, self \in T, other \in P, cased \in BOOLEAN :
          LET Returned(res) ==
                  /\ cache' = res.c
                  /\ pc' = "returned"
                  /\ arg' = [op |-> op, self |-> self, other |-> other, cased |-> cased,
                             c |-> cache]
                  /\ ret' = res.r
          IN  Returned(ApplyValueOp(cache, op, self, other, cased))

\* Strings of the cased-contains test of tests/matching.rs.
EvilExe == <<"c", ":", "\\", "e", "v", "i", "l", ".", "e", "x", "e">>
EvilExeUpper == <<"C", ":", "\\", "E", "V", "I", "L", ".", "e", "x", "e">>
Evil == <<"e", "v", "i", "l">>

CaseTargets ==
    {Str(s) : s \in SeqsUpTo({"a", "A", "e"}, MaxTarget) \cup {EvilExe, EvilExeUpper}}

CasePatterns ==
    {Str(s) : s \in {<<"a">>, <<"A">>, <<"A", "e">>, <<"a", "*">>, <<"A", "*">>, Evil}}

CompareCase == ValueCall(CaseTargets, CasePatterns)

NextCase == CompareCase \/ Continue

SpecCase == Start /\ [][NextCase]_vars

IsLetter(ch) == \E i \in 1..26 : ch = UpperLetters[i] \/ ch = LowerLetters[i]

\* C9: string comparison folds case exactly when `cased` is unset: with
\* `cased` unset the same comparison of the lowercased operands gives the
\* same result, and with `cased` set a match needs every letter of the
\* compare-value to occur in the target in the same case.
C9_CaseFolding ==
    (pc = "returned" /\ arg.op \in ValueOps) =>
        /\ ~arg.cased =>
              ret = ApplyValueOp(arg.c, arg.op, Str(to_lowercase(arg.self.v)),
                                 Str(to_lowercase(arg.other.v)), FALSE).r
        /\ (arg.cased /\ ret) =>
              \A i \in 1..Len(arg.other.v) :
                  IsLetter(arg.other.v[i]) =>
                      \E j \in 1..Len(arg.self.v) : arg.self.v[j] = arg.other.v[i]

-----------------------------------------------------------------------------
(* The condition lexer.  A token is [t |-> kind, s |-> text].              *)

Tok(t) == [t |-> t, s |-> <<>>]
TokS(t, s) == [t |-> t, s |-> s]
EndToken == Tok("End")

\* Characters that take two bytes in UTF-8; every other one takes one.
WideChars == {"é"}

\* The en dash (U+2013), the em dash (U+2014) and the horizontal bar
\* (U+2015), written by name; each takes three bytes.
EnDash == "endash"
EmDash == "emdash"
HorizontalBar == "hbar"

ThreeByteChars == {EnDash, EmDash, HorizontalBar}

CharWidth(ch) == IF ch \in WideChars THEN 2 ELSE IF ch \in ThreeByteChars THEN 3 ELSE 1

\* str::len: the length in bytes.
RECURSIVE ByteLen(_)
ByteLen(s) == IF s = <<>> THEN 0 ELSE CharWidth(Head(s)) + ByteLen(Tail(s))

\* The index (from 1) of the character that starts at byte offset b, with
\* Len(s) + 1 for the end of s; 0 when b is past the end or inside a
\* character.  k and off are the character reached and its byte offset.
RECURSIVE CharAtByte(_, _, _, _)
CharAtByte(s, b, k, off) ==
    IF off = b THEN k
    ELSE IF off > b \/ k > Len(s) THEN 0
    ELSE CharAtByte(s, b, k + 1, off + CharWidth(s[k]))

\* input[start..end], by byte offsets: [ok |-> FALSE] is the panic of a
\* slice that is out of range or cuts a character.
Slice(s, start, end) ==
    LET Bounded(first, last) ==
            IF start <= end /\ first # 0 /\ last # 0
            THEN [ok |-> TRUE, s |-> SubSeq(s, first, last - 1)]
            ELSE [ok |-> FALSE, s |-> <<>>]
    IN  Bounded(CharAtByte(s, start, 1, 0), CharAtByte(s, end, 1, 0))

\* char::is_ascii_whitespace, on the characters of the model.
IsWhitespace(ch) == ch = " "

KwNot == <<"n", "o", "t">>
KwAnd == <<"a", "n", "d">>
KwOr == <<"o", "r">>
KwOf == <<"o", "f">>
KwAll == <<"a", "l", "l">>
KwThem == <<"t", "h", "e", "m">>
KwOne == <<"1">>

\* Quantifier's Display
QuantifierToString(q) == IF q.k = "One" THEN KwOne ELSE q.text

NoQuantifier == [k |-> "None", text |-> <<>>]

\* One round of the loop of Lexer::tokenize, for the character at index i
\* (from 0).  st is [tokens, start, quantifier, of_keyword, panic].
TokenizeStep(input, st, i) ==
    LET char == input[i + 1]
        is_last == i = ByteLen(input) - 1
        is_whitespace == IsWhitespace(char)
        is_opening_parenthesis == char = "("
        is_closing_parenthesis == char = ")"
        is_parenthesis == is_opening_parenthesis \/ is_closing_parenthesis
        end == IF is_last /\ ~is_whitespace /\ ~is_parenthesis THEN i + 1 ELSE i
        q == st.quantifier
        \* the word is sliced and lowercased
        Sliced(sl, word, lower) ==
            LET isOf == q.k # "None" /\ ~st.of_keyword /\ lower = KwOf
                \* the `if let Some(q)` block before the match
                collapse == q.k # "None" /\ ~st.of_keyword /\ lower # KwOf
                isPlain == lower \notin {<<>>, KwNot, KwAnd, KwOr, <<"(">>, <<")">>,
                                         KwOne, KwAll}
                \* the match on the lowercased word
                Matched(tokens1, q1, of1, quantified) ==
                    LET Pushed(tokens2, q2, of2) ==
                            IF ~is_parenthesis /\ ~is_whitespace /\ ~is_last THEN st
                            ELSE IF is_whitespace /\ st.start = i
                            THEN [st EXCEPT !.start = i + 1]
                            ELSE IF ~sl.ok THEN [st EXCEPT !.panic = TRUE]
                            ELSE IF isOf /\ ~is_last
                            THEN [st EXCEPT !.of_keyword = TRUE, !.start = i + 1]
                            ELSE [tokens |->
                                      IF is_opening_parenthesis
                                      THEN Append(tokens2, Tok("OpeningParenthesis"))
                                      ELSE IF is_closing_parenthesis
                                      THEN Append(tokens2, Tok("ClosingParenthesis"))
                                      ELSE tokens2,
                                  start |-> i + 1, quantifier |-> q2,
                                  of_keyword |-> of2, panic |-> FALSE]
                    IN  Pushed(
                            CASE lower = <<>> -> tokens1
                              [] lower = KwNot -> Append(tokens1, Tok("Not"))
                              [] lower = KwAnd -> Append(tokens1, Tok("And"))
                              [] lower = KwOr -> Append(tokens1, Tok("Or"))
                              [] lower = <<"(">> -> Append(tokens1, Tok("OpeningParenthesis"))
                              [] lower = <<")">> -> Append(tokens1, Tok("ClosingParenthesis"))
                              [] lower = KwOne -> tokens1
                              [] lower = KwAll -> tokens1
                              [] OTHER ->
                                    IF quantified
                                    THEN IF q1.k = "One"
                                         THEN IF lower = KwThem
                                              THEN Append(tokens1, Tok("OneOfThem"))
                                              ELSE Append(tokens1, TokS("OneOf", word))
                                         ELSE IF lower = KwThem
                                              THEN Append(tokens1, Tok("AllOfThem"))
                                              ELSE Append(tokens1, TokS("AllOf", word))
                                    ELSE Append(tokens1, TokS("Selection", word)),
                            IF lower = KwOne THEN [k |-> "One", text |-> <<>>]
                            ELSE IF lower = KwAll THEN [k |-> "All", text |-> word]
                            ELSE IF isPlain /\ quantified THEN NoQuantifier
                            ELSE q1,
                            IF isPlain /\ quantified THEN FALSE ELSE of1)
            IN  Matched(
                    IF (isOf /\ is_last) \/ collapse
                    THEN Append(st.tokens, TokS("Selection", QuantifierToString(q)))
                    ELSE st.tokens,
                    IF collapse THEN NoQuantifier ELSE q,
                    st.of_keyword \/ isOf,
                    (IF collapse THEN FALSE ELSE q.k # "None") /\ (st.of_keyword \/ isOf))
        Cut(sl) == Sliced(sl, sl.s, to_lowercase(sl.s))
    IN  Cut(Slice(input, st.start, end))

RECURSIVE TokenizeFrom(_, _, _)
TokenizeFrom(input, st, i) ==
    IF i >= Len(input) \/ st.panic THEN st
    ELSE TokenizeFrom(input, TokenizeStep(input, st, i), i + 1)

\* Lexer::tokenize: [panic |-> FALSE, tokens |-> the tokens] or [panic |-> TRUE].
Tokenize(input) ==
    LET Result(st) == [panic |-> st.panic, tokens |-> st.tokens]
    IN  Result(TokenizeFrom(input,
                   [tokens |-> <<>>, start |-> 0, quantifier |-> NoQuantifier,
                    of_keyword |-> FALSE, panic |-> FALSE], 0))

\* Lexer::peek (and the token Lexer::next takes): End when none is left.
Peek(tokens) == IF tokens = <<>> THEN EndToken ELSE Head(tokens)

\* What Lexer::next leaves.
Advance(tokens) == IF tokens = <<>> THEN <<>> ELSE Tail(tokens)

\* Token's Display
TokenToString(tk) ==
    CASE tk.t = "Selection" -> tk.s
      [] tk.t = "Not" -> KwNot
      [] tk.t = "And" -> KwAnd
      [] tk.t = "Or" -> KwOr
      [] tk.t = "OpeningParenthesis" -> <<"(">>
      [] tk.t = "ClosingParenthesis" -> <<")">>
      [] tk.t = "OneOf" -> <<"1", " ", "o", "f", " ">> \o tk.s
      [] tk.t = "AllOf" -> <<"a", "l", "l", " ", "o", "f", " ">> \o tk.s
      [] tk.t = "OneOfThem" -> <<"1", " ", "o", "f", " ", "t", "h", "e", "m">>
      [] tk.t = "AllOfThem" -> <<"a", "l", "l", " ", "t", "h", "e", "m">>
      [] OTHER -> <<"<", "E", "N", "D", ">">>

-----------------------------------------------------------------------------
(* The condition parser.  An AST node is [t |-> kind, s |-> name or glob,  *)
(* a |-> operands].                                                        *)

Leaf(t, s) == [t |-> t, s |-> s, a |-> <<>>]
NotOf(x) == [t |-> "Not", s |-> <<>>, a |-> <<x>>]
AndOf(l, r) == [t |-> "And", s |-> <<>>, a |-> <<l, r>>]
OrOf(l, r) == [t |-> "Or", s |-> <<>>, a |-> <<l, r>>]

\* Ast::default
DefaultAst == Leaf("Selection", <<>>)

\* PrefixOperator::binding_power of Not
NotBindingPower == 3

\* A mutant of InfixBindingPower: `or` binds tighter than `and`.
InfixBindingPowerSwapped(t) == IF t = "And" THEN 1 ELSE 2

\* InfixOperator::binding_power
InfixBindingPower(t) == IF t = "And" THEN 2 ELSE 1

ParseOk(ast, rest) == [err |-> NoError, ast |-> ast, rest |-> rest]
ParseErr(e) == [err |-> e, ast |-> DefaultAst, rest |-> <<>>]

RECURSIVE parse_token_stream(_, _)
RECURSIVE ParseInfixLoop(_, _, _)

\* A mutant of ParseInfixLoop: a token that is no operator is reported as
\* UnexpectedToken.
RECURSIVE ParseInfixLoopUnexpected(_, _, _)
ParseInfixLoopUnexpected(left, tokens, min_binding_power) ==
    LET tk == Peek(tokens)
    IN  IF tk.t \in {"End", "ClosingParenthesis"} THEN ParseOk(left, tokens)
        ELSE IF tk.t \notin {"And", "Or"}
        THEN ParseErr(<<"UnexpectedToken", TokenToString(tk)>>)
        ELSE LET bp == InfixBindingPower(tk.t)
             IN  IF bp < min_binding_power THEN ParseOk(left, tokens)
                 ELSE LET right == parse_token_stream(Advance(tokens), bp)
                      IN  IF right.err # NoError THEN right
                          ELSE ParseInfixLoopUnexpected(
                                   IF tk.t = "And" THEN AndOf(left, right.ast)
                                   ELSE OrOf(left, right.ast),
                                   right.rest, min_binding_power)

\* A mutant of ParseInfixLoop: the loop also stops at an operator of the
\* binding power it was called with.
RECURSIVE ParseInfixLoopLeft(_, _, _)
ParseInfixLoopLeft(left, tokens, min_binding_power) ==
    LET tk == Peek(tokens)
    IN  IF tk.t \in {"End", "ClosingParenthesis"} THEN ParseOk(left, tokens)
        ELSE IF tk.t \notin {"And", "Or"}
        THEN ParseErr(<<"InvalidOperator", TokenToString(tk)>>)
        ELSE LET bp == InfixBindingPower(tk.t)
             IN  IF bp <= min_binding_power THEN ParseOk(left, tokens)
                 ELSE LET right == parse_token_stream(Advance(tokens), bp)
                      IN  IF right.err # NoError THEN right
                          ELSE ParseInfixLoopLeft(
                                   IF tk.t = "And" THEN AndOf(left, right.ast)
                                   ELSE OrOf(left, right.ast),
                                   right.rest, min_binding_power)

\* The loop of parse_token_stream that extends `left` by infix operators.
ParseInfixLoop(left, tokens, min_binding_power) ==
    LET tk == Peek(tokens)
    IN  IF tk.t \in {"End", "ClosingParenthesis"} THEN ParseOk(left, tokens)
        ELSE IF tk.t \notin {"And", "Or"}
        THEN ParseErr(<<"InvalidOperator", TokenToString(tk)>>)
        ELSE LET bp == InfixBindingPower(tk.t)
             IN  IF bp < min_binding_power THEN ParseOk(left, tokens)
                 ELSE LET right == parse_token_stream(Advance(tokens), bp)
                      IN  IF right.err # NoError THEN right
                          ELSE ParseInfixLoop(
                                   IF tk.t = "And" THEN AndOf(left, right.ast)
                                   ELSE OrOf(left, right.ast),
                                   right.rest, min_binding_power)

\* Ast::parse_token_stream: [err, ast, rest], rest the tokens not consumed.
parse_token_stream(tokens, min_binding_power) ==
    LET tk == Peek(tokens)
        after == Advance(tokens)
    IN  CASE tk.t \in {"Selection", "OneOf", "AllOf", "OneOfThem", "AllOfThem"} ->
                ParseInfixLoop(Leaf(tk.t, tk.s), after, min_binding_power)
          [] tk.t = "OpeningParenthesis" ->
                LET inner == parse_token_stream(after, 0)
                IN  IF inner.err # NoError THEN inner
                    ELSE IF Peek(inner.rest).t # "ClosingParenthesis"
                    THEN ParseErr(<<"MissingClosingParenthesis">>)
                    ELSE ParseInfixLoop(inner.ast, Advance(inner.rest), min_binding_power)
          [] tk.t = "Not" ->
                LET right == parse_token_stream(after, NotBindingPower)
                IN  IF right.err # NoError THEN right
                    ELSE ParseInfixLoop(NotOf(right.ast), right.rest, min_binding_power)
          [] OTHER -> ParseErr(<<"UnexpectedToken", TokenToString(tk)>>)

\* A mutant of AstNew: tokens left over after the expression are an error.
AstNewAllConsumed(input) ==
    LET Parsed(lexed) ==
            IF lexed.panic THEN [panic |-> TRUE, err |-> NoError, ast |-> DefaultAst]
            ELSE LET Done(parsed) ==
                         IF parsed.err = NoError /\ parsed.rest # <<>>
                         THEN [panic |-> FALSE,
                               err |-> <<"UnexpectedToken", TokenToString(Peek(parsed.rest))>>,
                               ast |-> DefaultAst]
                         ELSE [panic |-> FALSE, err |-> parsed.err, ast |-> parsed.ast]
                 IN  Done(parse_token_stream(lexed.tokens, 0))
    IN  Parsed(Tokenize(input))

\* Ast::new: [panic, err, ast]; panic when the lexer panics.
AstNew(input) ==
    LET Parsed(lexed) ==
            IF lexed.panic THEN [panic |-> TRUE, err |-> NoError, ast |-> DefaultAst]
            ELSE LET Done(parsed) ==
                         [panic |-> FALSE, err |-> parsed.err, ast |-> parsed.ast]
                 IN  Done(parse_token_stream(lexed.tokens, 0))
    IN  Parsed(Tokenize(input))

\* A mutant of AstSelections: the right operand of and/or is not visited.
RECURSIVE AstSelectionsLeft(_)
AstSelectionsLeft(ast) ==
    CASE ast.t = "Selection" -> {ast.s}
      [] ast.t = "Not" -> AstSelectionsLeft(ast.a[1])
      [] ast.t \in {"And", "Or"} -> AstSelectionsLeft(ast.a[1])
      [] OTHER -> {}

\* Ast::selections: the names of the Selection leaves.
RECURSIVE AstSelections(_)
AstSelections(ast) ==
    CASE ast.t = "Selection" -> {ast.s}
      [] ast.t = "Not" -> AstSelections(ast.a[1])
      [] ast.t \in {"And", "Or"} -> AstSelections(ast.a[1]) \cup AstSelections(ast.a[2])
      [] OTHER -> {}

\* impl Display for Ast: the fully parenthesised form.
RECURSIVE AstToString(_)
AstToString(ast) ==
    CASE ast.t = "Selection" -> ast.s
      [] ast.t = "OneOf" -> <<"1", " ", "o", "f", " ">> \o ast.s
      [] ast.t = "OneOfThem" -> <<"1", " ", "o", "f", " ", "t", "h", "e", "m">>
      [] ast.t = "AllOf" -> <<"a", "l", "l", " ", "o", "f", " ">> \o ast.s
      [] ast.t = "AllOfThem" -> <<"a", "l", "l", " ", "o", "f", " ", "t", "h", "e", "m">>
      [] ast.t = "Not" -> <<"n", "o", "t", " ", "(">> \o AstToString(ast.a[1]) \o <<")">>
      [] ast.t = "And" ->
            <<"(">> \o AstToString(ast.a[1]) \o <<" ", "a", "n", "d", " ">>
                \o AstToString(ast.a[2]) \o <<")">>
      [] OTHER ->
            <<"(">> \o AstToString(ast.a[1]) \o <<" ", "o", "r", " ">>
                \o AstToString(ast.a[2]) \o <<")">>

-----------------------------------------------------------------------------
(* Selections.  A selection is [kind |-> "Keyword", keywords] or           *)
(* [kind |-> "Field", groups], a group being a sequence of fields.         *)

KeywordSelection(keywords) == [kind |-> "Keyword", keywords |-> keywords, groups |-> <<>>]
FieldSelection(groups) == [kind |-> "Field", keywords |-> <<>>, groups |-> groups]

\* FieldGroup::evaluate: all fields, left to right, stopping at the first false.
RECURSIVE FieldGroupEvaluate(_, _, _)
FieldGroupEvaluate(c, fields, event) ==
    IF fields = <<>> THEN Pure(c, TRUE)
    ELSE LET Evaluated(first) ==
                 IF ~first.r THEN first
                 ELSE FieldGroupEvaluate(first.c, Tail(fields), event)
         IN  Evaluated(FieldEvaluate(c, Head(fields), event))

\* The Field arm of Selection::evaluate: any group, stopping at the first true.
RECURSIVE AnyGroup(_, _, _)
AnyGroup(c, groups, event) ==
    IF groups = <<>> THEN Pure(c, FALSE)
    ELSE LET Evaluated(first) ==
                 IF first.r THEN first
                 ELSE AnyGroup(first.c, Tail(groups), event)
         IN  Evaluated(FieldGroupEvaluate(c, Head(groups), event))

\* Selection::evaluate
SelectionEvaluate(c, selection, event) ==
    IF selection.kind = "Keyword"
    THEN Pure(c, \E k \in DOMAIN event :
                     \E i \in 1..Len(selection.keywords) :
                         EventValueContains(event[k], selection.keywords[i]))
    ELSE AnyGroup(c, selection.groups, event)

-----------------------------------------------------------------------------
(* Detections.  A detection is [selections, keys, condition, ast]:         *)
(* selections maps names to selections, keys is the order in which the     *)
(* HashMap of selections iterates.                                         *)

\* glob_match of the glob_match crate, for globs made of literal
\* characters, `*` and `?`.
RECURSIVE glob_match(_, _)
glob_match(glob, name) ==
    IF glob = <<>> THEN name = <<>>
    ELSE CASE Head(glob) = "*" ->
                \E k \in 0..Len(name) :
                    glob_match(Tail(glob), SubSeq(name, k + 1, Len(name)))
           [] Head(glob) = "?" ->
                name # <<>> /\ glob_match(Tail(glob), Tail(name))
           [] OTHER ->
                name # <<>> /\ Head(name) = Head(glob)
                    /\ glob_match(Tail(glob), Tail(name))

\* Detection::parse_ast after Detection::new has stored the selections:
\* [panic, err, d], d the detection when err = NoError.
DetectionNew(selections, keys, condition) ==
    LET Checked(parsed) ==
            LET Made(missing, d) ==
                    IF parsed.panic THEN [panic |-> TRUE, err |-> NoError, d |-> d]
                    ELSE IF parsed.err # NoError
                    THEN [panic |-> FALSE, err |-> parsed.err, d |-> d]
                    ELSE IF missing # {}
                    THEN [panic |-> FALSE, err |-> <<"UndefinedIdentifiers", missing>>,
                          d |-> d]
                    ELSE [panic |-> FALSE, err |-> NoError, d |-> d]
            IN  Made({i \in AstSelections(parsed.ast) : i \notin DOMAIN selections},
                     [selections |-> selections, keys |-> keys, condition |-> condition,
                      ast |-> parsed.ast])
    IN  Checked(AstNew(condition))

\* The state of one Detection::evaluate call: the cache, the memo table
\* `lookup`, the names Selection::evaluate ran for (in order), and whether
\* the "selection not found" branch of evaluate_selection was taken.
EvalStart(c) ==
    [c |-> c, lookup |-> [n \in {} |-> FALSE], trace |-> <<>>, notfound |-> FALSE]

\* A mutant of evaluate_selection: the memo table is written but not read.
evaluate_selection_no_memo(st, d, name, event) ==
    IF name \in DOMAIN d.selections
    THEN LET Evaluated(e) ==
                 [r |-> e.r,
                  st |-> [c |-> e.c,
                          lookup |-> [n \in (DOMAIN st.lookup) \cup {name} |->
                                          IF n = name THEN e.r ELSE st.lookup[n]],
                          trace |-> Append(st.trace, name),
                          notfound |-> st.notfound]]
         IN  Evaluated(SelectionEvaluate(st.c, d.selections[name], event))
    ELSE [r |-> FALSE, st |-> [st EXCEPT !.notfound = TRUE]]

\* Detection::evaluate_selection: [r, st]
evaluate_selection(st, d, name, event) ==
    IF name \in DOMAIN st.lookup THEN [r |-> st.lookup[name], st |-> st]
    ELSE IF name \in DOMAIN d.selections
    THEN LET Evaluated(e) ==
                 [r |-> e.r,
                  st |-> [c |-> e.c,
                          lookup |-> [n \in (DOMAIN st.lookup) \cup {name} |->
                                          IF n = name THEN e.r ELSE st.lookup[n]],
                          trace |-> Append(st.trace, name),
                          notfound |-> st.notfound]]
         IN  Evaluated(SelectionEvaluate(st.c, d.selections[name], event))
    ELSE [r |-> FALSE, st |-> [st EXCEPT !.notfound = TRUE]]

\* names.map(evaluate_selection).any(|b| b): stops at the first true.
RECURSIVE AnySelection(_, _, _, _)
AnySelection(st, d, names, event) ==
    IF names = <<>> THEN [r |-> FALSE, st |-> st]
    ELSE LET Evaluated(first) ==
                 IF first.r THEN first
                 ELSE AnySelection(first.st, d, Tail(names), event)
         IN  Evaluated(evaluate_selection(st, d, Head(names), event))

\* A mutant of AllSelections: over no selection the result is false.
RECURSIVE AllSelectionsNonEmpty(_, _, _, _)
AllSelectionsNonEmpty(st, d, names, event) ==
    IF names = <<>> THEN [r |-> FALSE, st |-> st]
    ELSE LET first == evaluate_selection(st, d, Head(names), event)
         IN  IF ~first.r \/ Len(names) = 1 THEN first
             ELSE AllSelectionsNonEmpty(first.st, d, Tail(names), event)

\* names.map(evaluate_selection).all(|b| b): stops at the first false.
RECURSIVE AllSelections(_, _, _, _)
AllSelections(st, d, names, event) ==
    IF names = <<>> THEN [r |-> TRUE, st |-> st]
    ELSE LET Evaluated(first) ==
                 IF ~first.r THEN first
                 ELSE AllSelections(first.st, d, Tail(names), event)
         IN  Evaluated(evaluate_selection(st, d, Head(names), event))

\* keys().filter(|name| glob_match(s, name)), in iteration order.
MatchingKeys(keys, glob) == SelectSeq(keys, LAMBDA name : glob_match(glob, name))

\* A mutant of Eval: both operands of And and Or are evaluated.
RECURSIVE EvalEager(_, _, _, _)
EvalEager(st, d, ast, event) ==
    LET Negated(x) == [r |-> ~x.r, st |-> x.st]
        Both(l, r) == [r |-> IF ast.t = "Or" THEN l.r \/ r.r ELSE l.r /\ r.r, st |-> r.st]
        Right(l) == Both(l, EvalEager(l.st, d, ast.a[2], event))
    IN  CASE ast.t = "Selection" -> evaluate_selection(st, d, ast.s, event)
          [] ast.t = "OneOf" -> AnySelection(st, d, MatchingKeys(d.keys, ast.s), event)
          [] ast.t = "OneOfThem" -> AnySelection(st, d, d.keys, event)
          [] ast.t = "AllOf" -> AllSelections(st, d, MatchingKeys(d.keys, ast.s), event)
          [] ast.t = "AllOfThem" -> AllSelections(st, d, d.keys, event)
          [] ast.t = "Not" -> Negated(EvalEager(st, d, ast.a[1], event))
          [] OTHER -> Right(EvalEager(st, d, ast.a[1], event))

\* Detection::eval: [r, st]
RECURSIVE Eval(_, _, _, _)
Eval(st, d, ast, event) ==
    LET Negated(x) == [r |-> ~x.r, st |-> x.st]
        OrRight(l) == IF l.r THEN l ELSE Eval(l.st, d, ast.a[2], event)
        AndRight(l) == IF ~l.r THEN l ELSE Eval(l.st, d, ast.a[2], event)
    IN  CASE ast.t = "Selection" -> evaluate_selection(st, d, ast.s, event)
          [] ast.t = "OneOf" -> AnySelection(st, d, MatchingKeys(d.keys, ast.s), event)
          [] ast.t = "OneOfThem" -> AnySelection(st, d, d.keys, event)
          [] ast.t = "AllOf" -> AllSelections(st, d, MatchingKeys(d.keys, ast.s), event)
          [] ast.t = "AllOfThem" -> AllSelections(st, d, d.keys, event)
          [] ast.t = "Not" -> Negated(Eval(st, d, ast.a[1], event))
          [] ast.t = "Or" -> OrRight(Eval(st, d, ast.a[1], event))
          [] ast.t = "And" -> AndRight(Eval(st, d, ast.a[1], event))

\* Detection::evaluate, which is all of Rule::is_match: [r, st]
DetectionEvaluate(c, d, event) == Eval(EvalStart(c), d, d.ast, event)

-----------------------------------------------------------------------------
(* Constructing detections from conditions, and evaluating them.           *)

MaxCondLen == 4

\* The words of a condition, joined by single spaces.
RECURSIVE Join(_)
Join(words) ==
    IF words = <<>> THEN <<>>
    ELSE IF Len(words) = 1 THEN Head(words)
    ELSE Head(words) \o <<" ">> \o Join(Tail(words))

NameX == <<"x">>
NameY == <<"y">>
NameZ == <<"z">>
ParenOpen == <<"(">>
ParenClose == <<")">>

CondAlphabet == {NameX, NameY, KwNot, KwAnd, KwOr, ParenOpen, ParenClose}

\* Conditions of the tests of detection/ast.rs and detection.rs.
CondExamples ==
    { <<NameX, KwOr, NameY, KwAnd, NameZ>>,
      <<<<"a">>, KwAnd, KwNot, <<"b">>, KwOr, KwNot, KwNot, <<"c">>>>,
      <<ParenOpen, NameX, KwOr, NameY, ParenClose, KwAnd, NameZ>>,
      <<NameX, KwAnd, ParenOpen, NameY, KwOr, NameZ, ParenClose>>,
      <<KwNot, ParenOpen, NameX, KwOr, NameY, ParenClose, KwAnd, NameZ>>,
      <<NameX, KwAnd, KwOne, KwOf, <<"q", "*">>>>,
      <<KwAll, KwOf, <<"q", "*">>, KwOr, NameZ>>,
      <<NameX, KwAnd, NameY, KwAnd, NameZ, KwAnd, NameX>>,
      <<NameX, KwOr, NameY, KwOr, NameZ, KwOr, NameY>>,
      <<ParenOpen, NameX, KwOr, NameY, ParenClose, KwAnd, NameZ, ParenClose>> }

\* Conditions with two infix operators: o1 p o2 q o3, each operand a name
\* or its negation.
TwoOperatorConditions ==
    { o1 \o <<p>> \o o2 \o <<q>> \o o3 :
        p \in {KwAnd, KwOr}, q \in {KwAnd, KwOr},
        o1 \in {<<NameX>>, <<KwNot, NameX>>},
        o2 \in {<<NameY>>, <<KwNot, NameY>>},
        o3 \in {<<NameZ>>, <<KwNot, NameZ>>} }

\* Conditions in which the quantifier word `1` stands without `of`.
LoneQuantifierConditions ==
    {words \in SeqsUpTo({NameX, KwNot, KwAnd, KwOne}, MaxCondLen) :
        \E k \in 1..Len(words) : words[k] = KwOne}
    \cup { <<ParenOpen, KwOne, ParenClose, KwAnd, NameX>>,
           <<ParenOpen, NameX, KwAnd, KwOne, ParenClose>>,
           <<KwNot, ParenOpen, KwOne, ParenClose>> }

Conditions ==
    SeqsUpTo(CondAlphabet, MaxCondLen) \cup CondExamples \cup TwoOperatorConditions
        \cup LoneQuantifierConditions

ShortConditions ==
    SeqsUpTo(CondAlphabet, MaxCondLen - 1) \cup CondExamples

\* Selections of detections built here: keyword selections.
KeywordsOf(name) == KeywordSelection(<<name>>)

SelectionMapOver(names) == [n \in names |-> KeywordsOf(n)]

\* The key sets of the selection maps detections are built over, each with
\* an iteration order.
KeyOrders == { <<NameX, NameY, NameZ>>, <<NameY, NameX>>, <<NameX>> }

SeqRange(s) == {s[i] : i \in 1..Len(s)}

ConstructEvents ==
    { [k \in {<<"f">>} |-> Scalar(Str(<<"x">>))],
      [k \in {<<"f">>} |-> Scalar(Str(<<"y", "z">>))] }

\* Ast::new on a condition.
ParseCondition ==
    /\ pc = "idle"
    /\ \E words \in Conditions :
          /\ pc' = "returned"
          /\ arg' = [op |-> "parse", words |-> words, c |-> cache]
          /\ ret' = AstNew(Join(words))
    /\ UNCHANGED cache

\* Detection::new on a selection map and a condition.
Construct ==
    /\ pc = "idle"
    /\ \E words \in ShortConditions, keys \in KeyOrders :
          /\ pc' = "returned"
          /\ arg' = [op |-> "new", words |-> words, keys |-> keys, c |-> cache]
          /\ ret' = DetectionNew(SelectionMapOver(SeqRange(keys)), keys, Join(words))
    /\ UNCHANGED cache

\* Detection::evaluate on the detection just constructed.
EvaluateConstructed ==
    /\ pc = "returned"
    /\ arg.op = "new"
    /\ ~ret.panic
    /\ ret.err = NoError
    /\ \E event \in ConstructEvents :
          LET Returned(res) ==
                  /\ pc' = "returned"
                  /\ arg' = [op |-> "evaluate", d |-> ret.d, event |-> event, c |-> cache]
                  /\ ret' = [r |-> res.r, lookup |-> res.st.lookup,
                             trace |-> res.st.trace, notfound |-> res.st.notfound]
                  /\ cache' = res.st.c
          IN  Returned(DetectionEvaluate(cache, ret.d, event))

\* The AST just parsed is printed by its Display form and the text is
\* handed to Ast::new again.
Reparse ==
    /\ pc = "returned"
    /\ arg.op = "parse"
    /\ ~ret.panic
    /\ ret.err = NoError
    /\ pc' = "returned"
    /\ arg' = [op |-> "reparse", ast |-> ret.ast, text |-> AstToString(ret.ast), c |-> cache]
    /\ ret' = AstNew(AstToString(ret.ast))
    /\ UNCHANGED cache

NextConstruct == ParseCondition \/ Construct \/ EvaluateConstructed \/ Reparse \/ Continue

SpecConstruct == Start /\ [][NextConstruct]_vars

\* The Selection leaves of an AST, collected over the operands of each node.
RECURSIVE LeafNames(_)
LeafNames(ast) ==
    IF ast.t = "Selection" THEN {ast.s}
    ELSE UNION {LeafNames(ast.a[i]) : i \in 1..Len(ast.a)}

\* C3: Detection construction succeeds only if every Selection leaf of the
\* parsed AST names a key of the selection map, and otherwise fails with
\* UndefinedIdentifiers listing the missing names; quantifier globs are not
\* validated; evaluating a constructed detection never takes the
\* "selection not found" branch of evaluate_selection.
C3_UndefinedIdentifiers ==
    /\ (pc = "returned" /\ arg.op = "new" /\ ~ret.panic) =>
          LET parsed == AstNew(Join(arg.words))
              missing == LeafNames(parsed.ast) \ SeqRange(arg.keys)
          IN  parsed.err = NoError =>
                 /\ missing = {} => (ret.err = NoError /\ ret.d.ast = parsed.ast)
                 /\ missing # {} => ret.err = <<"UndefinedIdentifiers", missing>>
    /\ (pc = "returned" /\ arg.op = "evaluate") => ~ret.notfound

\* Construction over the keys x alone of `x and y` fails and lists y.
C3_Witness ==
    /\ pc = "returned"
    /\ arg.op = "new"
    /\ arg.words = <<NameX, KwAnd, NameY>>
    /\ arg.keys = <<NameX>>
    /\ ret.err = <<"UndefinedIdentifiers", {NameY}>>

\* The words of an AST from left to right, without parentheses.
RECURSIVE Yield(_)
Yield(ast) ==
    CASE ast.t = "Selection" -> <<ast.s>>
      [] ast.t = "Not" -> <<KwNot>> \o Yield(ast.a[1])
      [] ast.t = "And" -> Yield(ast.a[1]) \o <<KwAnd>> \o Yield(ast.a[2])
      [] ast.t = "Or" -> Yield(ast.a[1]) \o <<KwOr>> \o Yield(ast.a[2])
      [] ast.t = "OneOf" -> <<KwOne, KwOf, ast.s>>
      [] ast.t = "AllOf" -> <<KwAll, KwOf, ast.s>>
      [] ast.t = "OneOfThem" -> <<KwOne, KwOf, KwThem>>
      [] ast.t = "AllOfThem" -> <<KwAll, KwOf, KwThem>>

\* Some node of the AST is of one of the kinds.
RECURSIVE HasKind(_, _)
HasKind(ast, kinds) ==
    ast.t \in kinds \/ \E i \in 1..Len(ast.a) : HasKind(ast.a[i], kinds)

\* The grouping of a condition without parentheses: no `and` or `or` under
\* a `not`, no `or` under an `and`.
RECURSIVE Grouped(_)
Grouped(ast) ==
    /\ ast.t = "Not" => ~HasKind(ast.a[1], {"And", "Or"})
    /\ ast.t = "And" => ~HasKind(ast, {"Or"})
    /\ \A i \in 1..Len(ast.a) : Grouped(ast.a[i])

IsParen(w) == w \in {ParenOpen, ParenClose}

\* A quantifier word of the condition that `of` does not follow.
LoneQuantifier(words) ==
    \E k \in 1..Len(words) :
        /\ words[k] \in {KwOne, KwAll}
        /\ k = Len(words) \/ words[k + 1] # KwOf

\* The AST with every leaf named `name` replaced by the AST `by`.
RECURSIVE Subst(_, _, _)
Subst(ast, name, by) ==
    IF ast.t = "Selection" /\ ast.s = name THEN by
    ELSE [ast EXCEPT !.a = [i \in 1..Len(ast.a) |-> Subst(ast.a[i], name, by)]]

\* A name that no condition uses.
Fresh == <<"p">>

\* Words i..j are `( inner )` with inner free of parentheses and a
\* condition of its own.
IsGroup(words, i, j) ==
    /\ i < j
    /\ words[i] = ParenOpen
    /\ words[j] = ParenClose
    /\ LET inner == SubSeq(words, i + 1, j - 1)
           parsed == AstNew(Join(inner))
       IN  /\ \A k \in 1..Len(inner) : ~IsParen(inner[k])
           /\ ~parsed.panic
           /\ parsed.err = NoError
           /\ Yield(parsed.ast) = inner

\* C4: the AST of a condition built from names, not, and, or and
\* parentheses groups with `not` tighter than `and` and `and` tighter than
\* `or`: without parentheses the AST reads as the condition from left to
\* right with no and/or under a not and no or under an and; a
\* parenthesised sub-expression stands where a single name would.
C4_Precedence ==
    (pc = "returned" /\ arg.op = "parse" /\ ~ret.panic /\ ret.err = NoError
        /\ ~LoneQuantifier(arg.words)) =>
        /\ (\A k \in 1..Len(arg.words) : ~IsParen(arg.words[k])) =>
              (Yield(ret.ast) = arg.words /\ Grouped(ret.ast))
        /\ arg.words = <<NameX, KwOr, NameY, KwAnd, NameZ>> =>
              ret.ast = OrOf(Leaf("Selection", NameX),
                             AndOf(Leaf("Selection", NameY), Leaf("Selection", NameZ)))
        /\ \A i, j \in 1..Len(arg.words) :
              IsGroup(arg.words, i, j) =>
                  LET inner == AstNew(Join(SubSeq(arg.words, i + 1, j - 1))).ast
                      outer == AstNew(Join(SubSeq(arg.words, 1, i - 1) \o <<Fresh>>
                                   \o SubSeq(arg.words, j + 1, Len(arg.words))))
                  IN  /\ outer.err = NoError
                      /\ ret.ast = Subst(outer.ast, Fresh, inner)

\* `a and not b or not not c` parses to Or(And(a, Not b), Not(Not c)).
C4_Witness ==
    /\ pc = "returned"
    /\ arg.op = "parse"
    /\ arg.words = <<<<"a">>, KwAnd, KwNot, <<"b">>, KwOr, KwNot, KwNot, <<"c">>>>
    /\ ret.ast = OrOf(AndOf(Leaf("Selection", <<"a">>), NotOf(Leaf("Selection", <<"b">>))),
                      NotOf(NotOf(Leaf("Selection", <<"c">>))))

-----------------------------------------------------------------------------
(* Fields and Field-kind selections, evaluated on events.                  *)

MaxValues == 2
MaxGroups == 2

NameA == <<"a">>
NameB == <<"b">>
NameImage == <<"I", "m", "a", "g", "e">>
NameReference == <<"r", "e", "f", "e", "r", "e", "n", "c", "e">>
Testing == <<"t", "e", "s", "t", "i", "n", "g">>
Test == <<"t", "e", "s", "t">>

\* An event from the values (<<>> for absent) under the keys a and b.
EventOf(va, vb) ==
    [k \in {n \in {NameA, NameB} : (IF n = NameA THEN va ELSE vb) # <<>>} |->
        IF k = NameA THEN va[1] ELSE vb[1]]

FieldEvents ==
    { EventOf(va, vb) :
        va \in { <<>>, <<Scalar(Str(<<"a">>))>>, <<Scalar(Str(<<"A", "b">>))>>,
                 <<Scalar(Null)>>, <<Scalar(Boolean(FALSE))>>, <<Scalar(Boolean(TRUE))>>,
                 <<Scalar(IntV(1))>>, <<SequenceOf(<<Scalar(Str(<<"a">>))>>)>> },
        vb \in { <<>>, <<Scalar(Str(<<"a">>))>>, <<Scalar(Str(<<"b">>))>>,
                 <<Scalar(Null)>>, <<MapOf([k \in {NameA} |-> Scalar(Str(<<"a">>))])>> } }
    \cup { [k \in {NameImage, NameReference} |->
               IF k = NameImage THEN Scalar(Str(Testing)) ELSE Scalar(Str(Test))] }

\* The pipe suffixes of the field declarations.
FieldSuffixes ==
    { <<>>, <<"all">>, <<"contains">>, <<"contains", "all">>, <<"startswith">>,
      <<"endswith">>, <<"exists">>, <<"fieldref">>, <<"fieldref", "startswith">>,
      <<"FieldRef", "ALL">>, <<"gte">> }

FieldCompareValues ==
    { Str(<<"a">>), Str(<<"b">>), Str(<<"a", "B">>), Null, Boolean(FALSE), Boolean(TRUE),
      IntV(1) }

FieldDeclarations ==
    { [name |-> n, words |-> w, values |-> v] :
        n \in {NameA, NameB}, w \in FieldSuffixes,
        v \in SeqsUpTo(FieldCompareValues, MaxValues) }
    \cup { [name |-> NameImage, words |-> <<"fieldref", "startswith">>,
            values |-> <<Str(NameReference)>>] }

\* Field::new on a declaration, and Field::evaluate of the field on an event.
\* Fields that compare strings by a string modifier take string values only.
FieldCall ==
    /\ pc = "idle"
    /\ \E decl \in FieldDeclarations, event \in FieldEvents :
          LET Evaluated(res) ==
                  /\ ret' = [err |-> NoError, r |-> res.r]
                  /\ cache' = res.c
              Made(made) ==
                  /\ pc' = "returned"
                  /\ arg' = [op |-> "field", name |-> decl.name, words |-> decl.words,
                             values |-> decl.values, event |-> event, c |-> cache]
                  /\ IF made.err # NoError
                     THEN /\ ret' = [err |-> made.err, r |-> FALSE]
                          /\ cache' = cache
                     ELSE Evaluated(FieldEvaluate(cache, made.f, event))
          IN  Made(FieldNew(decl.name, decl.words, decl.values))

\* The field of a declaration that Field::new accepts.
FieldOf(name, words, values) == FieldNew(name, words, values).f

\* The field groups of the selections evaluated here.
FieldGroups ==
    { <<FieldOf(NameA, <<>>, <<Str(<<"a">>), Str(<<"a", "b">>)>>)>>,
      <<FieldOf(NameA, <<"contains", "all">>, <<Str(<<"a">>), Str(<<"B">>)>>),
        FieldOf(NameB, <<>>, <<Str(<<"b">>)>>)>>,
      <<FieldOf(NameB, <<"startswith">>, <<Str(<<"c">>), Str(<<"A">>)>>),
        FieldOf(NameA, <<"all">>, <<Str(<<"a">>), Str(<<"A">>)>>)>>,
      <<FieldOf(NameB, <<>>, <<Null>>), FieldOf(NameA, <<"gte">>, <<IntV(1)>>)>> }

FieldSelections ==
    {FieldSelection(groups) : groups \in SeqsUpTo(FieldGroups, MaxGroups) \ {<<>>}}

\* Selection::evaluate of a Field-kind selection on an event.
SelectionCall ==
    /\ pc = "idle"
    /\ \E selection \in FieldSelections, event \in FieldEvents :
          LET Returned(res) ==
                  /\ pc' = "returned"
                  /\ arg' = [op |-> "selection", selection |-> selection, event |-> event,
                             c |-> cache]
                  /\ ret' = [err |-> NoError, r |-> res.r]
                  /\ cache' = res.c
          IN  Returned(SelectionEvaluate(cache, selection, event))

NextField == FieldCall \/ SelectionCall \/ Continue

SpecField == Start /\ [][NextField]_vars

\* A compare-value fires on the value an event holds.
Fires(field, ev, value) ==
    ev.kind = "Value" /\ Compare(EmptyCache, field, ev.v, value).r

\* A field is true for an event.
FieldTrue(field, event) ==
    /\ field.name \in DOMAIN event
    /\ IF field.modifier.match_all
       THEN \A i \in 1..Len(field.values) : Fires(field, event[field.name], field.values[i])
       ELSE \E i \in 1..Len(field.values) : Fires(field, event[field.name], field.values[i])

GroupTrue(group, event) == \A k \in 1..Len(group) : FieldTrue(group[k], event)

PlainSuffixes == FieldSuffixes \ {<<"exists">>, <<"fieldref">>, <<"fieldref", "startswith">>,
                                  <<"FieldRef", "ALL">>}

FieldrefSuffixes == {<<"fieldref">>, <<"fieldref", "startswith">>, <<"FieldRef", "ALL">>}

\* The comparison a fieldref field of the suffixes `words` makes between
\* the target and a dereferenced value, neither with wildcards.
RefCompare(words, target, value) ==
    IF words = <<"fieldref", "startswith">>
    THEN /\ target.tag = "String"
         /\ value.tag = "String"
         /\ StrStartsWith(to_lowercase(target.v), to_lowercase(value.v))
    ELSE IF target.tag = "String" /\ value.tag = "String"
         THEN to_lowercase(target.v) = to_lowercase(value.v)
         ELSE target = value

-----------------------------------------------------------------------------
(* Rules matched against events: Rule::is_match, which is                  *)
(* Detection::evaluate of the rule's detection.                            *)

NameSel == <<"s", "e", "l">>
NameKeywords == <<"k", "w">>
NameS1 == <<"s", "1">>
NameS2 == <<"s", "2">>
NameT == <<"t">>

PatternAStar == Str(<<"a", "*">>)
PatternQB == Str(<<"?", "b">>)

\* A rule whose detection is one selection, named in its condition.
SingleRule(name, selection) ==
    DetectionNew([n \in {name} |-> selection], <<name>>, name).d

\* A rule of one field: `a|<suffixes>: <value>`.
OneFieldRule(words, value) ==
    SingleRule(NameSel, FieldSelection(<<<<FieldOf(NameA, words, <<value>>)>>>>))

WildcardRules ==
    { OneFieldRule(words, value) :
        words \in { <<>>, <<"startswith">>, <<"endswith">>, <<"contains">>,
                    <<"contains", "cased">> },
        value \in {PatternAStar, PatternQB} }

KeywordRules ==
    { SingleRule(NameKeywords, KeywordSelection(kws)) :
        kws \in { <<<<"a", "b">>>>, <<<<"1">>>>, <<<<"A">>, <<"x">>>>, <<<<"t", "r", "u">>>> } }

\* The selections of the rules with quantifiers.
QuantifiedSelections ==
    [n \in {NameS1, NameS2, NameT} |->
        CASE n = NameS1 -> FieldSelection(<<<<FieldOf(NameA, <<>>, <<Str(<<"a", "b">>)>>)>>>>)
          [] n = NameS2 -> KeywordSelection(<<<<"b">>>>)
          [] OTHER -> FieldSelection(<<<<FieldOf(NameB, <<>>, <<Null>>)>>>>)]

QuantifiedConditions ==
    { <<KwOne, KwOf, <<"s", "*">>>>, <<KwAll, KwOf, <<"s", "*">>>>,
      <<KwOne, KwOf, <<"q", "*">>>>, <<KwAll, KwOf, <<"q", "*">>>>,
      <<KwOne, KwOf, <<"?", "2">>>>, <<KwAll, KwOf, <<"*">>>>,
      <<KwOne, KwOf, KwThem>>, <<KwAll, KwOf, KwThem>>,
      <<KwNot, KwOne, KwOf, <<"s", "*">>>>,
      <<NameT, KwAnd, KwAll, KwOf, <<"s", "*">>>>,
      <<NameS1, KwOr, NameS2, KwAnd, NameT>>,
      <<NameS1, KwAnd, NameS1>>,
      <<NameS1, KwAnd, KwAll, KwOf, <<"s", "*">>>>,
      <<KwNot, NameS2, KwAnd, KwNot, KwOne, KwOf, KwThem>>,
      <<KwAll, KwOf, KwThem, KwAnd, KwOne, KwOf, <<"s", "*">>, KwAnd, NameT>> }

QuantifiedRules ==
    { DetectionNew(QuantifiedSelections, keys, Join(words)).d :
        words \in QuantifiedConditions,
        keys \in { <<NameS1, NameS2, NameT>>, <<NameT, NameS2, NameS1>> } }

Rules == WildcardRules \cup KeywordRules \cup QuantifiedRules

Events ==
    { EventOf(va, vb) :
        va \in { <<>>, <<Scalar(Str(<<"a", "b">>))>>, <<Scalar(Str(<<"b", "a">>))>>,
                 <<Scalar(Str(<<"A", "b">>))>>, <<Scalar(Str(<<"b", "a", "b">>))>>,
                 <<Scalar(Null)>> },
        vb \in { <<>>, <<Scalar(Str(<<"b">>))>>, <<Scalar(Null)>>, <<Scalar(Boolean(TRUE))>>,
                 <<MapOf([k \in {NameA} |->
                       SequenceOf(<<Scalar(Str(<<"x", "a", "b">>)), Scalar(IntV(1))>>)])>> } }

\* Rule::is_match
IsMatch ==
    /\ pc = "idle"
    /\ \E rule \in Rules, event \in Events :
          LET Returned(res) ==
                  /\ pc' = "returned"
                  /\ arg' = [op |-> "is_match", rule |-> rule, event |-> event, c |-> cache]
                  /\ ret' = [r |-> res.r, lookup |-> res.st.lookup,
                             trace |-> res.st.trace, notfound |-> res.st.notfound]
                  /\ cache' = res.st.c
          IN  Returned(DetectionEvaluate(cache, rule, event))

Init == Start

Next == IsMatch \/ Continue

Spec == Init /\ [][Next]_vars

\* C1: R.is_match(E) returns the same boolean on every call, whatever
\* evaluations ran before it in the process: the result is the one a
\* process that evaluated nothing before gives.
C1_Deterministic ==
    (pc = "returned" /\ arg.op = "is_match") =>
        ret.r = DetectionEvaluate(EmptyCache, arg.rule, arg.event).r

\* The selection names that a glob selects.
Selected(rule, glob) == {n \in DOMAIN rule.selections : glob_match(glob, n)}

\* The result of a selection of the rule on the event.
SelectionResult(n) == SelectionEvaluate(arg.c, arg.rule.selections[n], arg.event).r

\* C2: OneOf(glob) is the disjunction and AllOf(glob) the conjunction of
\* the results of exactly those selections whose names match the glob; when
\* none matches, OneOf(glob) is false and AllOf(glob) is true.
C2_Quantifiers ==
    (pc = "returned" /\ arg.op = "is_match" /\ arg.rule.ast.t \in {"OneOf", "AllOf"}) =>
        LET M == Selected(arg.rule, arg.rule.ast.s)
        IN  /\ SeqRange(ret.trace) \subseteq M
            /\ arg.rule.ast.t = "OneOf" => ret.r = \E n \in M : SelectionResult(n)
            /\ arg.rule.ast.t = "AllOf" => ret.r = \A n \in M : SelectionResult(n)
            /\ M = {} => ret.r = (arg.rule.ast.t = "AllOf")

\* `all of q*` over selections none of which is named q... is true.
C2_Witness ==
    /\ pc = "returned"
    /\ arg.op = "is_match"
    /\ arg.rule.ast = Leaf("AllOf", <<"q", "*">>)
    /\ ret.r
    /\ ret.trace = <<>>

\* The scalars anywhere in an event value.
RECURSIVE ScalarsOf(_)
ScalarsOf(ev) ==
    CASE ev.kind = "Value" -> {ev.v}
      [] ev.kind = "Sequence" -> UNION {ScalarsOf(ev.items[i]) : i \in 1..Len(ev.items)}
      [] OTHER -> UNION {ScalarsOf(ev.m[k]) : k \in DOMAIN ev.m}

\* s occurs in text, character for character.
OccursIn(s, text) ==
    \E i \in 0..(Len(text) - Len(s)) : SubSeq(text, i + 1, i + Len(s)) = s

\* C6: a Keyword selection is true for an event iff some scalar anywhere in
\* the event, at the top or nested in sequences and maps, has a textual
\* form that contains one of the keywords as a case-sensitive substring.
C6_Keywords ==
    (pc = "returned" /\ arg.op = "is_match" /\ arg.rule.ast = Leaf("Selection", NameKeywords)) =>
        LET kws == arg.rule.selections[NameKeywords].keywords
        IN  ret.r = \E k \in DOMAIN arg.event :
                        \E v \in ScalarsOf(arg.event[k]) :
                            \E i \in 1..Len(kws) : OccursIn(kws[i], value_to_string(v))

\* The keyword 1 is found in an integer nested in a sequence inside a map.
C6_Witness ==
    /\ pc = "returned"
    /\ arg.op = "is_match"
    /\ arg.rule.ast = Leaf("Selection", NameKeywords)
    /\ arg.rule.selections[NameKeywords].keywords = <<<<"1">>>>
    /\ DOMAIN arg.event = {NameB}
    /\ arg.event[NameB].kind = "Map"
    /\ ret.r

-----------------------------------------------------------------------------
(* Event lookups by dotted keys.                                           *)

MaxSegments == 3    \* most dot-separated segments of a key

\* The words joined by the separator.
RECURSIVE JoinWith(_, _)
JoinWith(words, sep) ==
    IF words = <<>> THEN <<>>
    ELSE IF Len(words) = 1 THEN Head(words)
    ELSE Head(words) \o <<sep>> \o JoinWith(Tail(words), sep)

\* The dotted keys of up to MaxSegments segments, each segment a or b.
DottedKeys == {JoinWith(segs, ".") : segs \in SeqsUpTo({<<"a">>, <<"b">>}, MaxSegments) \ {<<>>}}

\* The segments joined into literal keys, a new key starting after each
\* segment whose index is in cuts.
RECURSIVE CutAt(_, _, _)
CutAt(segs, cuts, i) ==
    IF i > Len(segs) THEN <<>>
    ELSE LET j == IF \E k \in cuts : k >= i THEN CHOOSE k \in cuts : k >= i /\ \A l \in cuts : l >= i => k <= l
                  ELSE Len(segs)
         IN  <<JoinWith(SubSeq(segs, i, j), ".")>> \o CutAt(segs, cuts, j + 1)

\* The places of an event: the literal keys from the top down to a value,
\* of up to MaxSegments segments together.
KeyPaths ==
    UNION { {CutAt(segs, cuts, 1) : cuts \in SUBSET (1..(Len(segs) - 1))} :
              segs \in SeqsUpTo({<<"a">>, <<"b">>}, MaxSegments) \ {<<>>} }

\* The event that holds, at each of the places, a string naming the place;
\* a place that lies on the way to another one is a map.
RECURSIVE EventAt(_, _)
EventAt(paths, prefix) ==
    [k \in {Head(p) : p \in paths} |->
        LET below == {Tail(p) : p \in {q \in paths : Head(q) = k}}
            here == prefix \o <<k>>
        IN  IF below = {<<>>} THEN Scalar(Str(JoinWith(here, "/")))
            ELSE MapOf(EventAt(below \ {<<>>}, here))]

NestedEvents == {EventAt({p, q}, <<>>) : p, q \in KeyPaths}

\* Event::get on an event and a key.
GetCall ==
    /\ pc = "idle"
    /\ \E event \in NestedEvents, key \in DottedKeys :
          /\ pc' = "returned"
          /\ arg' = [op |-> "get", event |-> event, key |-> key, c |-> cache]
          /\ ret' = EventGet(event, key)
    /\ UNCHANGED cache

NextEvent == GetCall \/ Continue

SpecEvent == Start /\ [][NextEvent]_vars

\* The dot-separated segments of a key.
RECURSIVE SegmentsOf(_)
SegmentsOf(key) ==
    IF \E i \in 1..Len(key) : key[i] = "."
    THEN LET i == CHOOSE k \in 1..Len(key) : key[k] = "." /\ \A j \in 1..(k - 1) : key[j] # "."
         IN  <<SubSeq(key, 1, i - 1)>> \o SegmentsOf(SubSeq(key, i + 1, Len(key)))
    ELSE <<key>>

\* The map reached from m through the segments, each a key that holds a
\* map: <<the map>>, or <<>> when a segment is absent or holds no map.
RECURSIVE Walk(_, _)
Walk(m, segs) ==
    IF segs = <<>> THEN <<m>>
    ELSE IF Head(segs) \in DOMAIN m /\ m[Head(segs)].kind = "Map"
    THEN Walk(m[Head(segs)].m, Tail(segs))
    ELSE <<>>

\* The suffix of the key after its first i segments is a literal key of the
\* map its first i segments lead to.
SuffixAt(event, segs, i) ==
    LET level == Walk(event, SubSeq(segs, 1, i))
        suffix == JoinWith(SubSeq(segs, i + 1, Len(segs)), ".")
    IN  level # <<>> /\ suffix \in DOMAIN level[1]

SuffixValue(event, segs, i) ==
    Walk(event, SubSeq(segs, 1, i))[1][JoinWith(SubSeq(segs, i + 1, Len(segs)), ".")]

\* C11: Event.get(k) returns the value under the literal top-level key k
\* whenever that key exists, even if a nested path spelled by k exists too;
\* otherwise it descends the nested maps segment by segment and returns the
\* value at the first level where the whole remaining suffix is a literal
\* key; it returns nothing when no level has one, so when a head segment is
\* absent or holds no map.
C11_EventGet ==
    (pc = "returned" /\ arg.op = "get") =>
        LET segs == SegmentsOf(arg.key)
            levels == {i \in 0..(Len(segs) - 1) : SuffixAt(arg.event, segs, i)}
        IN  /\ arg.key \in DOMAIN arg.event => ret = <<arg.event[arg.key]>>
            /\ levels = {} => ret = <<>>
            /\ levels # {} =>
                  ret = <<SuffixValue(arg.event, segs,
                                      CHOOSE i \in levels : \A j \in levels : i <= j)>>

\* The key a.b is a literal top-level key and also spells a nested path;
\* the value under the literal key is returned.
C11_Witness ==
    /\ pc = "returned"
    /\ arg.op = "get"
    /\ arg.key = <<"a", ".", "b">>
    /\ arg.key \in DOMAIN arg.event
    /\ <<"a">> \in DOMAIN arg.event
    /\ arg.event[<<"a">>].kind = "Map"
    /\ <<"b">> \in DOMAIN arg.event[<<"a">>].m
    /\ ret = <<Scalar(Str(<<"a", ".", "b">>))>>

-----------------------------------------------------------------------------
(* Equality and ordering of FieldValues, called directly.                  *)

MaxNumber == 3      \* largest of the small numbers compared

\* PartialOrd::gt, ge, lt and le, as the standard library derives them from
\* partial_cmp.
ValueGt(a, b) == partial_cmp(a, b) = "Greater"
ValueGe(a, b) == partial_cmp(a, b) \in {"Greater", "Equal"}
ValueLt(a, b) == partial_cmp(a, b) = "Less"
ValueLe(a, b) == partial_cmp(a, b) \in {"Less", "Equal"}

OrderOps == {"eq", "is_equal", "gt", "ge", "lt", "le"}

ApplyOrderOp(c, op, self, other) ==
    CASE op = "eq" -> Pure(c, ValueEq(self, other))
      [] op = "is_equal" -> is_equal(c, self, other, FALSE)
      [] op = "gt" -> Pure(c, ValueGt(self, other))
      [] op = "ge" -> Pure(c, ValueGe(self, other))
      [] op = "lt" -> Pure(c, ValueLt(self, other))
      [] op = "le" -> Pure(c, ValueLe(self, other))

\* Values of every tag; the numbers of test_field_value_type and
\* test_evaluate_gte are among them.
OrderValues ==
    {IntV(n) : n \in (-1..MaxNumber) \cup {15, 20}}
    \cup {Unsigned(n) : n \in 0..MaxNumber}
    \cup {Float(n) : n \in (-1..MaxNumber) \cup {14, 30}}
    \cup {Str(<<"2">>), Str(<<"3">>), Str(<<"a">>), Str(<<"t", "r", "u", "e">>),
          Str(<<"n", "u", "l", "l">>), Str(<<>>)}
    \cup {Boolean(TRUE), Boolean(FALSE), Null}

\* One comparison of two values.
OrderCall ==
    /\ pc = "idle"
    /\ \E op \in OrderOps, self \in OrderValues, other \in OrderValues :
          LET Returned(res) ==
                  /\ cache' = res.c
                  /\ pc' = "returned"
                  /\ arg' = [op |-> op, self |-> self, other |-> other, c |-> cache]
                  /\ ret' = res.r
          IN  Returned(ApplyOrderOp(cache, op, self, other))

NextOrder == OrderCall \/ Continue

SpecOrder == Start /\ [][NextOrder]_vars

\* C12: between two values of different type tags equality is false and
\* each of gt, ge, lt and le is false, whatever the magnitudes.
C12_CrossTag ==
    (pc = "returned" /\ arg.op \in OrderOps /\ arg.self.tag # arg.other.tag) => ~ret

\* Int(3) >= Float(3.0) is false.
C12_Witness ==
    /\ pc = "returned"
    /\ arg.op = "ge"
    /\ arg.self = IntV(3)
    /\ arg.other = Float(3)
    /\ ~ret

-----------------------------------------------------------------------------
(* Equality with wildcards.                                                *)

\* The glob matches the whole of s: `*` any run, `?` one character.
RECURSIVE GlobWhole(_, _)
GlobWhole(glob, s) ==
    IF glob = <<>> THEN s = <<>>
    ELSE IF Head(glob) = "*"
    THEN \E k \in 0..Len(s) : GlobWhole(Tail(glob), SubSeq(s, k + 1, Len(s)))
    ELSE /\ s # <<>>
         /\ Head(glob) = "?" \/ Head(glob) = Head(s)
         /\ GlobWhole(Tail(glob), Tail(s))

\* C13: equality with a compare-value that holds an unescaped `*` or `?` is
\* true iff the whole target, from its first to its last character, matches
\* the glob (letters compared in folded case unless `cased`); a target that
\* only contains a match of the glob is not equal.  Stated for the calls
\* that find the pattern cache empty.
C13_AnchoredGlob ==
    (pc = "returned" /\ arg.op = "is_equal" /\ arg.c = EmptyCache
        /\ contains_unescaped_wildcards(arg.other.v)) =>
        ret = IF arg.cased THEN GlobWhole(arg.other.v, arg.self.v)
              ELSE GlobWhole(to_lowercase(arg.other.v), to_lowercase(arg.self.v))

-----------------------------------------------------------------------------
(* Printing and re-parsing.                                                *)

\* C14: for every condition that Ast::new parses successfully, the Display
\* form of the AST, passed to Ast::new again, parses successfully to an AST
\* of identical structure.
C14_DisplayRoundTrip ==
    (pc = "returned" /\ arg.op = "reparse") =>
        /\ ~ret.panic
        /\ ret.err = NoError
        /\ ret.ast = arg.ast

-----------------------------------------------------------------------------
(* Malformed conditions.                                                   *)

OperandTokens == {"Selection", "OneOf", "AllOf", "OneOfThem", "AllOfThem"}

\* The first defect of a token stream read from left to right, or NoError.
\* `operand` tells whether an operand is due; depth counts the parentheses
\* that are open.  A `)` at depth 0 after an operand ends the expression.
RECURSIVE FirstDefect(_, _, _)
FirstDefect(tokens, operand, depth) ==
    LET tk == Peek(tokens)
        rest == Advance(tokens)
    IN  IF operand
        THEN CASE tk.t \in OperandTokens -> FirstDefect(rest, FALSE, depth)
               [] tk.t = "OpeningParenthesis" -> FirstDefect(rest, TRUE, depth + 1)
               [] tk.t = "Not" -> FirstDefect(rest, TRUE, depth)
               [] OTHER -> <<"UnexpectedToken", TokenToString(tk)>>
        ELSE CASE tk.t \in {"And", "Or"} -> FirstDefect(rest, TRUE, depth)
               [] tk.t = "ClosingParenthesis" ->
                     IF depth = 0 THEN NoError ELSE FirstDefect(rest, FALSE, depth - 1)
               [] tk.t = "End" ->
                     IF depth = 0 THEN NoError ELSE <<"MissingClosingParenthesis">>
               [] OTHER -> <<"InvalidOperator", TokenToString(tk)>>

\* C15: Ast::new classifies a malformed condition by its first defect: an
\* open `(` whose sub-expression is followed by the end of input instead of
\* `)` gives MissingClosingParenthesis; an operand position that holds an
\* infix operator, a `)` or the end of input gives UnexpectedToken naming
\* that token; an operand followed by a token other than `and`, `or`, `)`
\* or the end gives InvalidOperator naming that token; an error comes with
\* no AST, and a token stream without defect is accepted.
C15_ParseErrors ==
    (pc = "returned" /\ arg.op = "parse" /\ ~ret.panic) =>
        LET defect == FirstDefect(Tokenize(Join(arg.words)).tokens, TRUE, 0)
        IN  /\ ret.err = defect
            /\ defect # NoError => ret.ast = DefaultAst

\* `( x or y` fails with MissingClosingParenthesis.
C15_Witness ==
    /\ pc = "returned"
    /\ arg.op = "parse"
    /\ arg.words = <<ParenOpen, NameX, KwOr, NameY>>
    /\ ret.err = <<"MissingClosingParenthesis">>
    /\ ret.ast = DefaultAst

-----------------------------------------------------------------------------
(* Modifier parsing, called directly on the pipe suffixes of a field name. *)

MaxSuffixes == 3    \* most pipe suffixes of a field name

\* Suffix words: flags, match modifiers, value transformers, UTF-16
\* flavors, an unknown word, and a word in capitals.
SuffixWords ==
    {"all", "fieldref", "contains", "exists", "re", "base64", "base64offset", "windash",
     "cased", "utf16le", "utf16", "bogus", "Exists"}

\* Modifier::from_str on a field name with up to MaxSuffixes suffixes.
ModifierCall ==
    /\ pc = "idle"
    /\ \E words \in SeqsUpTo(SuffixWords, MaxSuffixes) :
          LET Returned(parsed) ==
                  /\ pc' = "returned"
                  /\ arg' = [op |-> "modifier", words |-> words, c |-> cache]
                  /\ ret' = parsed
          IN  Returned(ModifierFromStr(words))
    /\ UNCHANGED cache

NextModifier == ModifierCall \/ Continue

SpecModifier == Start /\ [][NextModifier]_vars

\* C16: a field name in which `exists` stands with any other pipe suffix,
\* before or after it, is rejected; `name|exists` alone is accepted.
C16_ExistsStandalone ==
    (pc = "returned" /\ arg.op = "modifier"
        /\ \E i \in 1..Len(arg.words) : LowerWord(arg.words[i]) = "exists") =>
        (ret.err = NoError <=> Len(arg.words) = 1)

Base64WindashWords == {"base64", "base64offset", "windash"}

\* C17: a field name whose suffixes are two or more of base64,
\* base64offset and windash (one of them twice, or different ones, in any
\* order) is rejected with ConflictingModifiers.
C17_OneTransformer ==
    (pc = "returned" /\ arg.op = "modifier" /\ Len(arg.words) >= 2
        /\ \A i \in 1..Len(arg.words) : arg.words[i] \in Base64WindashWords) =>
        (ret.err # NoError /\ ret.err[1] = "ConflictingModifiers")

-----------------------------------------------------------------------------
(* Value transformations: windash.                                         *)

MaxTokens == 2      \* most space-delimited tokens of a windash value

\* windash_chars, in the order of the array.
WindashChars == <<"-", "/", EnDash, EmDash, HorizontalBar>>

\* str::split by a one-character separator.
RECURSIVE StrSplit(_, _)
StrSplit(s, sep) ==
    IF \E i \in 1..Len(s) : s[i] = sep
    THEN LET i == CHOOSE k \in 1..Len(s) : s[k] = sep /\ \A j \in 1..(k - 1) : s[j] # sep
         IN  <<SubSeq(s, 1, i - 1)>> \o StrSplit(SubSeq(s, i + 1, Len(s)), sep)
    ELSE <<s>>

\* str::replace: every non-overlapping occurrence of `from`, left to right.
RECURSIVE StrReplace(_, _, _)
StrReplace(s, from, to) ==
    IF Len(s) < Len(from) THEN s
    ELSE IF SubSeq(s, 1, Len(from)) = from
    THEN to \o StrReplace(SubSeq(s, Len(from) + 1, Len(s)), from, to)
    ELSE <<Head(s)>> \o StrReplace(Tail(s), from, to)

\* The flag starts with one of the windash characters.
StartsWithWindash(flag) ==
    flag # <<>> /\ \E i \in 1..Len(WindashChars) : flag[1] = WindashChars[i]

\* The keys of `replacements`.
WindashFlags(s) ==
    LET flags == StrSplit(s, " ")
    IN  {flags[i] : i \in {j \in 1..Len(flags) : StartsWithWindash(flags[j])}}

\* The inner loop of windash_variations for one flag, from the i-th windash
\* character on.  replace_range(0..1, ..) panics when byte 1 of the flag is
\* inside its first character.
RECURSIVE FlagVariations(_, _, _)
FlagVariations(original_str, flag, i) ==
    IF i > Len(WindashChars) THEN [panic |-> FALSE, result |-> <<>>]
    ELSE IF flag[1] = WindashChars[i] THEN FlagVariations(original_str, flag, i + 1)
    ELSE IF CharWidth(flag[1]) # 1 THEN [panic |-> TRUE, result |-> <<>>]
    ELSE LET Rest(more) ==
                 [panic |-> more.panic,
                  result |-> <<StrReplace(original_str, flag,
                                          <<WindashChars[i]>> \o Tail(flag))>> \o more.result]
         IN  Rest(FlagVariations(original_str, flag, i + 1))

\* The outer loop of windash_variations over the flags, in the order in
\* which `replacements` iterates.
RECURSIVE AllVariations(_, _)
AllVariations(original_str, order) ==
    IF order = <<>> THEN [panic |-> FALSE, result |-> <<>>]
    ELSE LET First(one) ==
                 IF one.panic THEN one
                 ELSE LET Rest(more) ==
                              [panic |-> more.panic, result |-> one.result \o more.result]
                      IN  Rest(AllVariations(original_str, Tail(order)))
         IN  First(FlagVariations(original_str, Head(order), 1))

\* windash_variations: [panic, result]; order is the iteration order of
\* the HashMap of flags.
windash_variations(input, order) ==
    LET Started(original_str) ==
            LET Done(all) ==
                    [panic |-> all.panic,
                     result |-> IF all.panic THEN <<>> ELSE <<original_str>> \o all.result]
            IN  Done(AllVariations(original_str, order))
    IN  Started(value_to_string(input))

\* The orders in which a HashMap with the keys S can iterate.
IterationOrders(S) ==
    {order \in [1..Cardinality(S) -> S] :
        \A i, j \in 1..Cardinality(S) : i # j => order[i] # order[j]}

WindashTokens ==
    { <<"-", "a">>, <<"/", "a">>, <<EnDash, "a">>, <<EmDash, "a">>, <<HorizontalBar, "a">>, <<"-", "b">>,
      <<"a">>, <<"b", "-", "a">>, <<"/">>, <<"-", "a", "b">> }

WindashInputs ==
    {Str(JoinWith(tokens, " ")) : tokens \in SeqsUpTo(WindashTokens, MaxTokens)}
        \cup {IntV(-1), IntV(1)}

\* windash_variations on a value.
WindashCall ==
    /\ pc = "idle"
    /\ \E input \in WindashInputs :
          \E order \in IterationOrders(WindashFlags(value_to_string(input))) :
              LET Returned(res) ==
                      /\ pc' = "returned"
                      /\ arg' = [op |-> "windash", input |-> input, c |-> cache]
                      /\ ret' = res
              IN  Returned(windash_variations(input, order))
    /\ UNCHANGED cache

NextWindash == WindashCall \/ Continue

SpecWindash == Start /\ [][NextWindash]_vars

\* The value with the leading character of each token equal to `token`
\* replaced by `alt`.
TokenVariant(tokens, token, alt) ==
    JoinWith([i \in 1..Len(tokens) |->
                 IF tokens[i] = token THEN <<alt>> \o Tail(token) ELSE tokens[i]], " ")

\* C18: for a value with k distinct space-delimited tokens that start with
\* one of the five dash characters, windash_variations returns, without
\* failing, 1 + 4k strings: the original and, for each such token, the four
\* variants in which that token's leading character is replaced by each of
\* the other four dash characters; with no such token only the original.
C18_Windash ==
    (pc = "returned" /\ arg.op = "windash") =>
        LET original == value_to_string(arg.input)
            tokens == StrSplit(original, " ")
            flags == WindashFlags(original)
            dashes == SeqRange(WindashChars)
        IN  /\ ~ret.panic
            /\ Len(ret.result) = 1 + 4 * Cardinality(flags)
            /\ SeqRange(ret.result) =
                   {original} \cup
                       UNION { {TokenVariant(tokens, f, alt) : alt \in dashes \ {f[1]}} :
                                 f \in flags }

-----------------------------------------------------------------------------
(* Selection construction from YAML (selection.rs).  A YAML value is a     *)
(* tagged record; the key of a mapping entry that is a string is kept as   *)
(* its name and its modifier words, the parts that Field::parse splits     *)
(* at `|`.                                                                 *)

MaxElements == 3

YamlString(s) == [tag |-> "String", v |-> s]
YamlNumber(n) == [tag |-> "Number", v |-> n]
YamlBool(b) == [tag |-> "Bool", v |-> b]
YamlNull == [tag |-> "Null", v |-> 0]
YamlSequence(items) == [tag |-> "Sequence", v |-> items]
YamlMapping(entries) == [tag |-> "Mapping", v |-> entries]
YamlEntry(key, words, value) == [key |-> key, words |-> words, value |-> value]

YamlScalarTags == {"String", "Number", "Bool", "Null"}

\* FieldValue::try_from(serde_yml::Value); the numbers here are i64 integers.
FieldValueTryFrom(value) ==
    CASE value.tag = "Bool" -> [err |-> NoError, v |-> Boolean(value.v)]
      [] value.tag = "Number" -> [err |-> NoError, v |-> IntV(value.v)]
      [] value.tag = "String" -> [err |-> NoError, v |-> Str(value.v)]
      [] value.tag = "Null" -> [err |-> NoError, v |-> Null]
      [] OTHER -> [err |-> <<"InvalidYAML">>, v |-> Null]

\* Field::from_yaml: one value, or the values of a sequence, then Field::new.
FieldFromYaml(name, words, value) ==
    LET Converted(items) ==
            IF \E i \in 1..Len(items) : FieldValueTryFrom(items[i]).err # NoError
            THEN [err |-> <<"InvalidYAML">>]
            ELSE FieldNew(name, words,
                          [i \in 1..Len(items) |-> FieldValueTryFrom(items[i]).v])
    IN  IF value.tag \in YamlScalarTags THEN Converted(<<value>>)
        ELSE IF value.tag = "Sequence" THEN Converted(value.v)
        ELSE [err |-> <<"InvalidYAML">>]

\* FieldGroup::try_from(Mapping): the entries in order, stopping at the first
\* key that is not a string and at the first field that fails.
RECURSIVE FieldGroupTryFrom(_, _, _)
FieldGroupTryFrom(entries, i, fields) ==
    IF i > Len(entries) THEN [err |-> NoError, fields |-> fields]
    ELSE IF entries[i].key.tag # "String"
    THEN [err |-> <<"InvalidFieldName">>, fields |-> <<>>]
    ELSE LET Made(made) ==
                 IF made.err # NoError THEN [err |-> made.err, fields |-> <<>>]
                 ELSE FieldGroupTryFrom(entries, i + 1, Append(fields, made.f))
         IN  Made(FieldFromYaml(entries[i].key.v, entries[i].words, entries[i].value))

SelectionParsingError(e) == <<"SelectionParsingError", <<>>, e>>

\* A mutant of KeywordsTryFrom: a mapping among the keywords is reported as
\* a mix of keywords and field lists.
RECURSIVE KeywordsTryFromMixed(_, _, _)
KeywordsTryFromMixed(seq, i, keywords) ==
    IF i > Len(seq) THEN [err |-> NoError, sel |-> KeywordSelection(keywords)]
    ELSE IF seq[i].tag \in {"String", "Number", "Bool"}
    THEN KeywordsTryFromMixed(seq, i + 1,
                         Append(keywords, value_to_string(FieldValueTryFrom(seq[i]).v)))
    ELSE IF seq[i].tag = "Mapping"
    THEN [err |-> SelectionParsingError("MixedKeywordAndFieldlist"),
          sel |-> KeywordSelection(<<>>)]
    ELSE [err |-> SelectionParsingError("InvalidKeywordSelection"),
          sel |-> KeywordSelection(<<>>)]

\* The keyword branch of Selection::try_from: strings, numbers and booleans
\* become keywords; the first other element fails the construction.
RECURSIVE KeywordsTryFrom(_, _, _)
KeywordsTryFrom(seq, i, keywords) ==
    IF i > Len(seq) THEN [err |-> NoError, sel |-> KeywordSelection(keywords)]
    ELSE IF seq[i].tag \in {"String", "Number", "Bool"}
    THEN KeywordsTryFrom(seq, i + 1,
                         Append(keywords, value_to_string(FieldValueTryFrom(seq[i]).v)))
    ELSE [err |-> SelectionParsingError("InvalidKeywordSelection"),
          sel |-> KeywordSelection(<<>>)]

\* The field list branch: every element must be a mapping that makes a
\* field group.
RECURSIVE FieldListTryFrom(_, _, _)
FieldListTryFrom(seq, i, groups) ==
    IF i > Len(seq) THEN [err |-> NoError, sel |-> FieldSelection(groups)]
    ELSE IF seq[i].tag = "Mapping"
    THEN LET Made(made) ==
                 IF made.err # NoError
                 THEN [err |-> made.err, sel |-> FieldSelection(<<>>)]
                 ELSE FieldListTryFrom(seq, i + 1, Append(groups, made.fields))
         IN  Made(FieldGroupTryFrom(seq[i].v, 1, <<>>))
    ELSE [err |-> SelectionParsingError("MixedKeywordAndFieldlist"),
          sel |-> FieldSelection(<<>>)]

\* Selection::try_from(Value).
SelectionTryFrom(other) ==
    IF other.tag = "Sequence"
    THEN IF other.v = <<>>
         THEN [err |-> SelectionParsingError("SelectionContainsNoFields"),
               sel |-> FieldSelection(<<>>)]
         ELSE IF other.v[1].tag # "Mapping"
         THEN KeywordsTryFrom(other.v, 1, <<>>)
         ELSE FieldListTryFrom(other.v, 1, <<>>)
    ELSE IF other.tag = "Mapping"
    THEN LET Made(made) ==
                 IF made.err # NoError
                 THEN [err |-> made.err, sel |-> FieldSelection(<<>>)]
                 ELSE [err |-> NoError, sel |-> FieldSelection(<<made.fields>>)]
         IN  Made(FieldGroupTryFrom(other.v, 1, <<>>))
    ELSE [err |-> SelectionParsingError("InvalidSelectionType"),
          sel |-> FieldSelection(<<>>)]

\* The elements of the sequences tried: scalars of each kind, a nested
\* sequence, mappings that make a field group and mappings that do not.
YamlMappings ==
    { YamlMapping(<<YamlEntry(YamlString(NameA), <<>>, YamlString(<<"a">>))>>),
      YamlMapping(<<YamlEntry(YamlString(NameA), <<"contains">>, YamlString(<<"a">>)),
                    YamlEntry(YamlString(NameB), <<>>,
                              YamlSequence(<<YamlNumber(1), YamlNull>>))>>),
      YamlMapping(<<YamlEntry(YamlString(NameA), <<"contains">>, YamlNumber(1))>>),
      YamlMapping(<<YamlEntry(YamlString(NameA), <<"bogus">>, YamlString(<<"a">>))>>),
      YamlMapping(<<YamlEntry(YamlNumber(1), <<>>, YamlString(<<"a">>))>>),
      YamlMapping(<<YamlEntry(YamlString(NameB), <<>>, YamlSequence(<<>>))>>) }

YamlElements ==
    { YamlString(<<"a">>), YamlNumber(6), YamlBool(TRUE), YamlNull,
      YamlSequence(<<YamlString(<<"a">>)>>) } \cup YamlMappings

YamlSelections ==
    {YamlSequence(items) : items \in SeqsUpTo(YamlElements, MaxElements)}
    \cup YamlElements

\* Selection::try_from on a YAML value.
SelectionNewCall ==
    /\ pc = "idle"
    /\ \E other \in YamlSelections :
          /\ pc' = "returned"
          /\ arg' = [op |-> "selection_new", other |-> other, c |-> cache]
          /\ ret' = SelectionTryFrom(other)
          /\ UNCHANGED cache

NextSelectionNew == SelectionNewCall \/ Continue

SpecSelectionNew == Start /\ [][NextSelectionNew]_vars

IsScalar(value) == value.tag \in YamlScalarTags
IsMapping(value) == value.tag = "Mapping"

\* The call under test is a construction from a sequence.
FromSequence == pc = "returned" /\ arg.op = "selection_new" /\ arg.other.tag = "Sequence"

HasScalar(seq) == \E i \in 1..Len(seq) : IsScalar(seq[i])
HasMapping(seq) == \E i \in 1..Len(seq) : IsMapping(seq[i])

\* The mappings before position n all make a field group.
GroupsBefore(seq, n) ==
    \A i \in 1..(n - 1) : IsMapping(seq[i]) => FieldGroupTryFrom(seq[i].v, 1, <<>>).err = NoError

\* The position of the first element that is not a mapping (Len + 1 if none).
FirstNonMapping(seq) ==
    IF \A i \in 1..Len(seq) : IsMapping(seq[i]) THEN Len(seq) + 1
    ELSE CHOOSE i \in 1..Len(seq) :
            ~IsMapping(seq[i]) /\ \A j \in 1..(i - 1) : IsMapping(seq[j])

\* C19 as stated: a non-empty sequence that mixes scalars and mappings fails
\* with MixedKeywordAndFieldlist whichever kind comes first, and an empty
\* sequence fails with SelectionContainsNoFields.
C19_MixedWhicheverFirst ==
    FromSequence =>
        /\ arg.other.v = <<>> =>
              ret.err = SelectionParsingError("SelectionContainsNoFields")
        /\ (HasScalar(arg.other.v) /\ HasMapping(arg.other.v)) =>
              ret.err = SelectionParsingError("MixedKeywordAndFieldlist")

\* C19 as amended: an empty sequence fails with SelectionContainsNoFields; a
\* sequence that starts with a mapping and holds a scalar fails with
\* MixedKeywordAndFieldlist when the mappings before its first non-mapping
\* element all make field groups; a sequence that starts with a scalar and
\* holds a mapping fails with InvalidKeywordSelection.
C19_MixedByFirstElement ==
    FromSequence =>
        /\ arg.other.v = <<>> =>
              ret.err = SelectionParsingError("SelectionContainsNoFields")
        /\ ( /\ arg.other.v # <<>>
             /\ IsMapping(arg.other.v[1])
             /\ HasScalar(arg.other.v)
             /\ GroupsBefore(arg.other.v, FirstNonMapping(arg.other.v)) ) =>
              ret.err = SelectionParsingError("MixedKeywordAndFieldlist")
        /\ ( /\ arg.other.v # <<>>
             /\ IsScalar(arg.other.v[1])
             /\ HasMapping(arg.other.v) ) =>
              ret.err = SelectionParsingError("InvalidKeywordSelection")

\* Reached: two keywords followed by a mapping, refused as an invalid keyword
\* selection.
C19_Witness ==
    /\ FromSequence
    /\ arg.other.v = <<YamlNumber(6), YamlString(<<"a">>),
                       YamlMapping(<<YamlEntry(YamlString(NameA), <<>>,
                                               YamlString(<<"a">>))>>)>>
    /\ ret.err = SelectionParsingError("InvalidKeywordSelection")

-----------------------------------------------------------------------------
(* The base64 transformations (transformation.rs).  A character is named   *)
(* by its code point, a byte is a number below 256, and an encoding is a   *)
(* string of the characters of the standard base64 alphabet.               *)

MaxPlain == 3       \* most characters of a plaintext
MaxBefore == 3      \* most bytes in front of the plaintext in a blob
MaxAfter == 1       \* most bytes behind the plaintext in a blob

\* The character '\0'.
Nul == "nul"

CodePoint(ch) ==
    CASE ch = Nul -> 0
      [] ch = "/" -> 47
      [] ch = "1" -> 49
      [] ch = "a" -> 97
      [] ch = "é" -> 233
      [] ch = " " -> 32
      [] ch = "-" -> 45
      [] ch = "l" -> 108
      [] ch = "n" -> 110
      [] ch = "u" -> 117

\* The UTF-8 bytes of a character below U+0800.
Utf8Bytes(ch) ==
    IF CodePoint(ch) < 128 THEN <<CodePoint(ch)>>
    ELSE <<192 + (CodePoint(ch) \div 64), 128 + (CodePoint(ch) % 64)>>

\* The bytes of the UTF-16 code unit of a character of the basic plane.
Utf16Bytes(ch, utf16modifier) ==
    IF utf16modifier = "utf16le"
    THEN <<CodePoint(ch) % 256, CodePoint(ch) \div 256>>
    ELSE <<CodePoint(ch) \div 256, CodePoint(ch) % 256>>

\* The bytes that encode_base64 hands to the engine.
RECURSIVE StringBytes(_, _)
StringBytes(s, utf16modifier) ==
    IF s = <<>> THEN <<>>
    ELSE (IF utf16modifier = "None" THEN Utf8Bytes(Head(s))
          ELSE Utf16Bytes(Head(s), utf16modifier))
         \o StringBytes(Tail(s), utf16modifier)

Base64Alphabet ==
    << "A", "B", "C", "D", "E", "F", "G", "H", "I", "J", "K", "L", "M", "N", "O", "P",
       "Q", "R", "S", "T", "U", "V", "W", "X", "Y", "Z", "a", "b", "c", "d", "e", "f",
       "g", "h", "i", "j", "k", "l", "m", "n", "o", "p", "q", "r", "s", "t", "u", "v",
       "w", "x", "y", "z", "0", "1", "2", "3", "4", "5", "6", "7", "8", "9", "+", "/" >>

B64(n) == Base64Alphabet[n + 1]

\* STANDARD_NO_PAD.encode: four characters for three bytes, two characters
\* for a last single byte, three for a last pair, and no padding.
RECURSIVE EncodeNoPad(_)
EncodeNoPad(bytes) ==
    IF bytes = <<>> THEN <<>>
    ELSE IF Len(bytes) = 1
    THEN <<B64(bytes[1] \div 4), B64((bytes[1] % 4) * 16)>>
    ELSE IF Len(bytes) = 2
    THEN <<B64(bytes[1] \div 4),
           B64((bytes[1] % 4) * 16 + (bytes[2] \div 16)),
           B64((bytes[2] % 16) * 4)>>
    ELSE <<B64(bytes[1] \div 4),
           B64((bytes[1] % 4) * 16 + (bytes[2] \div 16)),
           B64((bytes[2] % 16) * 4 + (bytes[3] \div 64)),
           B64(bytes[3] % 64)>>
         \o EncodeNoPad(SubSeq(bytes, 4, Len(bytes)))

\* A mutant of encode_base64: the last character of a partial group stays.
encode_base64_keep_last(input, utf16modifier) ==
    EncodeNoPad(StringBytes(value_to_string(input), utf16modifier))

\* encode_base64: the encoding without its last character when that one
\* also depends on what follows the input.
encode_base64(input, utf16modifier) ==
    LET Popped(encoded) ==
            IF Len(encoded) % 4 = 2 \/ Len(encoded) % 4 = 3
            THEN SubSeq(encoded, 1, Len(encoded) - 1)
            ELSE encoded
    IN  Popped(EncodeNoPad(StringBytes(value_to_string(input), utf16modifier)))

\* String::drain(0..n) of a string longer than n: what is left.
Drained(s, n) == SubSeq(s, n + 1, Len(s))

\* `count` null characters in front of a string.
Nulls(count) == [i \in 1..count |-> Nul]

\* encode_base64_offset: the encoding as it is, and the encodings behind
\* char_width and 2 * char_width null characters without the characters
\* that the nulls reach into; an output with nothing left is not returned.
encode_base64_offset(input, utf16modifier) ==
    LET Outputs(char_width) ==
            LET Out(output_0, output_1, output_2) ==
                    (IF output_0 # <<>> THEN <<output_0>> ELSE <<>>)
                    \o (IF Len(output_1) > char_width * (1 + char_width)
                        THEN <<Drained(output_1, char_width * (1 + char_width))>>
                        ELSE <<>>)
                    \o (IF Len(output_2) > 2 * (char_width * (1 + char_width)) - 1
                        THEN <<Drained(output_2, 2 * (char_width * (1 + char_width)) - 1)>>
                        ELSE <<>>)
            IN  Out(encode_base64(input, utf16modifier),
                    encode_base64(Str(Nulls(char_width) \o value_to_string(input)),
                                  utf16modifier),
                    encode_base64(Str(Nulls(2 * char_width) \o value_to_string(input)),
                                  utf16modifier))
    IN  Outputs(IF utf16modifier \in {"utf16le", "utf16be"} THEN 2 ELSE 1)

Utf16Modifiers == {"None", "utf16le", "utf16be"}

PlainChars == {"/", "a", "é"}
Plaintexts == SeqsUpTo(PlainChars, MaxPlain)

AroundBytes == {0, 255}
BytesBefore == SeqsUpTo(AroundBytes, MaxBefore)
BytesAfter == SeqsUpTo(AroundBytes, MaxAfter)

\* encode_base64_offset of a plaintext that is looked for in a blob, the
\* plaintext's bytes between the bytes p and t.
Base64OffsetCall ==
    /\ pc = "idle"
    /\ \E s \in Plaintexts, u \in Utf16Modifiers, p \in BytesBefore, t \in BytesAfter :
          /\ pc' = "returned"
          /\ arg' = [op |-> "base64offset", s |-> s, utf16 |-> u, p |-> p, t |-> t,
                     c |-> cache]
          /\ ret' = [fragments |-> encode_base64_offset(Str(s), u)]
          /\ UNCHANGED cache

NextBase64 == Base64OffsetCall \/ Continue

SpecBase64 == Start /\ [][NextBase64]_vars

\* The standard base64 encoding, padded with `=` to a multiple of four.
StandardEncode(bytes) ==
    LET Padded(encoded) ==
            encoded \o [i \in 1..((4 - (Len(encoded) % 4)) % 4) |-> "="]
    IN  Padded(EncodeNoPad(bytes))

\* The blob of a call: the encoding of the bytes p, the plaintext and t.
Blob == StandardEncode(arg.p \o StringBytes(arg.s, arg.utf16) \o arg.t)

\* The encoding of the plaintext behind `nulls` null characters, without its
\* first `drop` characters; nothing if nothing is left.
Fragment(nulls, drop) ==
    LET Left(encoded) ==
            IF Len(encoded) > drop THEN <<Drained(encoded, drop)>> ELSE <<>>
    IN  Left(encode_base64(Str(Nulls(nulls) \o arg.s), arg.utf16))

OffsetReturned == pc = "returned" /\ arg.op = "base64offset"

\* For an 8-bit plaintext of two bytes or more, a fragment occurs in the blob.
FragmentInBlob ==
    (arg.utf16 = "None" /\ Len(StringBytes(arg.s, "None")) >= 2) =>
        \E i \in 1..Len(ret.fragments) : OccursIn(ret.fragments[i], Blob)

-----------------------------------------------------------------------------
(* The memo table of one Detection::evaluate call.                         *)

IsMatchReturned == pc = "returned" /\ arg.op = "is_match"

NoDuplicates(s) == \A i, j \in 1..Len(s) : s[i] = s[j] => i = j

\* The value of an AST whose selections are read from a memo table, the
\* operands taken left to right and only as far as they decide.
RECURSIVE MemoAny(_, _)
MemoAny(names, lookup) ==
    IF names = <<>> THEN FALSE
    ELSE IF lookup[Head(names)] THEN TRUE ELSE MemoAny(Tail(names), lookup)

RECURSIVE MemoAll(_, _)
MemoAll(names, lookup) ==
    IF names = <<>> THEN TRUE
    ELSE IF lookup[Head(names)] THEN MemoAll(Tail(names), lookup) ELSE FALSE

RECURSIVE MemoValue(_, _, _)
MemoValue(ast, keys, lookup) ==
    CASE ast.t = "Selection" -> lookup[ast.s]
      [] ast.t = "OneOf" -> MemoAny(MatchingKeys(keys, ast.s), lookup)
      [] ast.t = "OneOfThem" -> MemoAny(keys, lookup)
      [] ast.t = "AllOf" -> MemoAll(MatchingKeys(keys, ast.s), lookup)
      [] ast.t = "AllOfThem" -> MemoAll(keys, lookup)
      [] ast.t = "Not" -> ~MemoValue(ast.a[1], keys, lookup)
      [] ast.t = "Or" -> IF MemoValue(ast.a[1], keys, lookup) THEN TRUE
                         ELSE MemoValue(ast.a[2], keys, lookup)
      [] ast.t = "And" -> IF MemoValue(ast.a[1], keys, lookup)
                          THEN MemoValue(ast.a[2], keys, lookup) ELSE FALSE

\* C21: during one Detection::evaluate call Selection::evaluate runs at most
\* once for each selection name, however often literal and quantifier leaves
\* refer to it; the table the call ends with holds exactly the selections
\* evaluated in this call, nothing from an earlier event, and the result is
\* the value of the condition read from that table.
C21_Memo ==
    IsMatchReturned =>
        /\ NoDuplicates(ret.trace)
        /\ DOMAIN ret.lookup = SeqRange(ret.trace)
        /\ ret.r = MemoValue(arg.rule.ast, arg.rule.keys, ret.lookup)

\* Reached: s1 is named by a literal and selected by `all of s*`, and
\* Selection::evaluate ran once for s1 and once for s2.
C21_Witness ==
    /\ IsMatchReturned
    /\ arg.rule.condition = Join(<<NameS1, KwAnd, KwAll, KwOf, <<"s", "*">>>>)
    /\ ret.trace = <<NameS1, NameS2>>
    /\ ret.r

-----------------------------------------------------------------------------
(* The order in which one Detection::evaluate call consults selections.    *)

\* The names up to and including the first one whose value is `deciding`.
RECURSIVE UpToDeciding(_, _, _)
UpToDeciding(names, truth, deciding) ==
    IF names = <<>> THEN <<>>
    ELSE IF truth[Head(names)] = deciding THEN <<Head(names)>>
    ELSE <<Head(names)>> \o UpToDeciding(Tail(names), truth, deciding)

\* The selections a left-to-right, short-circuiting walk of the AST
\* consults, in order and with repetitions, the selections having the
\* values `truth`.
RECURSIVE Visits(_, _, _)
Visits(ast, keys, truth) ==
    CASE ast.t = "Selection" -> <<ast.s>>
      [] ast.t = "OneOf" -> UpToDeciding(MatchingKeys(keys, ast.s), truth, TRUE)
      [] ast.t = "OneOfThem" -> UpToDeciding(keys, truth, TRUE)
      [] ast.t = "AllOf" -> UpToDeciding(MatchingKeys(keys, ast.s), truth, FALSE)
      [] ast.t = "AllOfThem" -> UpToDeciding(keys, truth, FALSE)
      [] ast.t = "Not" -> Visits(ast.a[1], keys, truth)
      [] ast.t = "Or" ->
            Visits(ast.a[1], keys, truth)
            \o (IF MemoValue(ast.a[1], keys, truth) THEN <<>>
                ELSE Visits(ast.a[2], keys, truth))
      [] ast.t = "And" ->
            Visits(ast.a[1], keys, truth)
            \o (IF MemoValue(ast.a[1], keys, truth)
                THEN Visits(ast.a[2], keys, truth) ELSE <<>>)

\* A sequence without the later occurrences of its elements.
RECURSIVE FirstOccurrences(_)
FirstOccurrences(s) ==
    IF s = <<>> THEN <<>>
    ELSE LET Before(init) ==
                 IF s[Len(s)] \in SeqRange(init) THEN FirstOccurrences(init)
                 ELSE Append(FirstOccurrences(init), s[Len(s)])
         IN  Before(SubSeq(s, 1, Len(s) - 1))

\* The values the call found, and false for the selections it never
\* evaluated.
FoundValues ==
    [n \in DOMAIN arg.rule.selections |->
        IF n \in DOMAIN ret.lookup THEN ret.lookup[n] ELSE FALSE]

\* C22: Detection::evaluate walks the AST left to right and short-circuits:
\* the right operand of And is evaluated only if the left one is true, that
\* of Or only if the left one is false, and a quantifier stops at the first
\* deciding selection; the selections evaluated are exactly those such a
\* walk consults, in that order, so a selection in skipped operands only is
\* never evaluated.
C22_ShortCircuit ==
    IsMatchReturned =>
        ret.trace = FirstOccurrences(Visits(arg.rule.ast, arg.rule.keys, FoundValues))

\* Reached: in `s1 or s2 and t` s1 is true, and neither s2 nor t is evaluated.
C22_Witness ==
    /\ IsMatchReturned
    /\ arg.rule.condition = Join(<<NameS1, KwOr, NameS2, KwAnd, NameT>>)
    /\ ret.trace = <<NameS1>>
    /\ ret.r

-----------------------------------------------------------------------------
(* Chains of one infix operator.                                           *)

ParseReturned == pc = "returned" /\ arg.op = "parse"

\* Names joined by one operator: n1 p n2 p ... p nk, with three names or more.
IsChain(words) ==
    /\ Len(words) >= 5
    /\ Len(words) % 2 = 1
    /\ words[2] \in {KwAnd, KwOr}
    /\ \A i \in 1..Len(words) :
          IF i % 2 = 0 THEN words[i] = words[2] ELSE words[i] \in {NameX, NameY, NameZ}

NodeOf(op, l, r) == IF op = KwAnd THEN AndOf(l, r) ELSE OrOf(l, r)

\* ((n1 p n2) p n3) ...
RECURSIVE LeftNested(_)
LeftNested(words) ==
    IF Len(words) = 1 THEN Leaf("Selection", words[1])
    ELSE NodeOf(words[2], LeftNested(SubSeq(words, 1, Len(words) - 2)),
                Leaf("Selection", words[Len(words)]))

\* n1 p (n2 p (n3 ...))
RECURSIVE RightNested(_)
RightNested(words) ==
    IF Len(words) = 1 THEN Leaf("Selection", words[1])
    ELSE NodeOf(words[2], Leaf("Selection", words[1]),
                RightNested(SubSeq(words, 3, Len(words))))

\* C23 as stated: operators of equal binding power associate to the left,
\* `a and b and c` parses to And(And(a, b), c) and `a or b or c` to
\* Or(Or(a, b), c).
C23_LeftAssociative ==
    (ParseReturned /\ IsChain(arg.words)) =>
        (~ret.panic /\ ret.err = NoError /\ ret.ast = LeftNested(arg.words))

\* C23 as amended: operators of equal binding power associate to the right,
\* `a and b and c` parses to And(a, And(b, c)) and `a or b or c` to
\* Or(a, Or(b, c)).
C23_RightAssociative ==
    (ParseReturned /\ IsChain(arg.words)) =>
        (~ret.panic /\ ret.err = NoError /\ ret.ast = RightNested(arg.words))

\* Reached: `x and y and z` parsed to And(x, And(y, z)).
C23_Witness ==
    /\ ParseReturned
    /\ arg.words = <<NameX, KwAnd, NameY, KwAnd, NameZ>>
    /\ ret.ast = AndOf(Leaf("Selection", NameX),
                       AndOf(Leaf("Selection", NameY), Leaf("Selection", NameZ)))

-----------------------------------------------------------------------------
(* The lexer on its own: Lexer::tokenize on condition strings.             *)

MaxPieces == 4      \* most pieces a condition string is put together from

\* The pieces: quantifier words, a name, `of`, parentheses, a space and a
\* character of two bytes.
LexerPieces ==
    { KwOne, <<"a", "L", "l">>, NameX, KwOf, ParenOpen, ParenClose, <<" ">>, <<"é">> }

RECURSIVE Concat(_)
Concat(pieces) == IF pieces = <<>> THEN <<>> ELSE Head(pieces) \o Concat(Tail(pieces))

LexerInputs == {Concat(pieces) : pieces \in SeqsUpTo(LexerPieces, MaxPieces)}

\* Lexer::tokenize on a condition string.
TokenizeCall ==
    /\ pc = "idle"
    /\ \E input \in LexerInputs :
          /\ pc' = "returned"
          /\ arg' = [op |-> "tokenize", input |-> input, c |-> cache]
          /\ ret' = Tokenize(input)
    /\ UNCHANGED cache

NextLexer == TokenizeCall \/ Continue

SpecLexer == Start /\ [][NextLexer]_vars

TokenizeReturned == pc = "returned" /\ arg.op = "tokenize"

\* The words of a string: the runs of characters between whitespace and
\* parentheses, and each parenthesis.
RECURSIVE WordsFrom(_, _, _)
WordsFrom(input, k, word) ==
    LET Flushed == IF word = <<>> THEN <<>> ELSE <<word>>
    IN  IF k > Len(input) THEN Flushed
        ELSE IF IsWhitespace(input[k]) THEN Flushed \o WordsFrom(input, k + 1, <<>>)
        ELSE IF input[k] \in {"(", ")"}
        THEN Flushed \o <<<<input[k]>>>> \o WordsFrom(input, k + 1, <<>>)
        ELSE WordsFrom(input, k + 1, Append(word, input[k]))

WordsOf(input) == WordsFrom(input, 1, <<>>)

\* The token of a word that is read on its own.
PlainToken(word) ==
    CASE to_lowercase(word) = KwNot -> Tok("Not")
      [] to_lowercase(word) = KwAnd -> Tok("And")
      [] to_lowercase(word) = KwOr -> Tok("Or")
      [] word = ParenOpen -> Tok("OpeningParenthesis")
      [] word = ParenClose -> Tok("ClosingParenthesis")
      [] OTHER -> TokS("Selection", word)

PlainTokens(words) == [i \in 1..Len(words) |-> PlainToken(words[i])]

IsQuantifierWord(word) == to_lowercase(word) \in {KwOne, KwAll}

HasQuantifierWord(words) == \E i \in 1..Len(words) : IsQuantifierWord(words[i])

\* Some quantifier word has the word `of` right behind it.
QuantifierBeforeOf(words) ==
    \E i \in 1..(Len(words) - 1) :
        IsQuantifierWord(words[i]) /\ to_lowercase(words[i + 1]) = KwOf

OneByteOnly(input) == \A i \in 1..Len(input) : CharWidth(input[i]) = 1

\* C24: a quantifier word (`1` or `all`, in any case) without `of` right
\* behind it is emitted as a Selection token with its original text and the
\* other words are tokenized as usual, wherever it stands, also as the last
\* word and directly before `)`; no word is dropped.
C24_LoneQuantifier ==
    ( /\ TokenizeReturned
      /\ OneByteOnly(arg.input)
      /\ HasQuantifierWord(WordsOf(arg.input))
      /\ ~QuantifierBeforeOf(WordsOf(arg.input)) ) =>
        (~ret.panic /\ ret.tokens = PlainTokens(WordsOf(arg.input)))

\* C25: tokenize returns a token sequence for every string, empty,
\* whitespace-only or with characters of more than one byte, without
\* panicking, and every word of the input, the last one too, is reflected
\* in the tokens (stated here for strings without quantifier words).
C25_NeverPanics ==
    TokenizeReturned =>
        /\ ~ret.panic
        /\ ~HasQuantifierWord(WordsOf(arg.input)) =>
              ret.tokens = PlainTokens(WordsOf(arg.input))

-----------------------------------------------------------------------------
(* Field::bootstrap: the values of a field after construction.  The        *)
(* modifier is the one Modifier::from_str makes; the fields built here     *)
(* have at most one value transformer and no exists, re or cidr modifier.  *)

\* The values one value is replaced by: [panic, values].
TransformValue(val, transformer) ==
    LET Strings(strs) == [i \in 1..Len(strs) |-> Str(strs[i])]
        Varied(res) == [panic |-> res.panic, values |-> Strings(res.result)]
    IN  CASE transformer.t = "base64" ->
                [panic |-> FALSE, values |-> <<Str(encode_base64(val, transformer.utf16))>>]
          [] transformer.t = "base64offset" ->
                [panic |-> FALSE,
                 values |-> Strings(encode_base64_offset(val, transformer.utf16))]
          [] transformer.t = "windash" ->
                Varied(windash_variations(val,
                           CHOOSE order \in IterationOrders(WindashFlags(value_to_string(val))) :
                               TRUE))
          [] OTHER -> [panic |-> FALSE, values |-> <<>>]

\* The loop over self.values that collects transformed_values.
RECURSIVE TransformValues(_, _)
TransformValues(values, transformer) ==
    IF values = <<>> THEN [panic |-> FALSE, values |-> <<>>]
    ELSE LET First(one) ==
                 IF one.panic THEN one
                 ELSE LET Rest(more) ==
                              [panic |-> more.panic, values |-> one.values \o more.values]
                      IN  Rest(TransformValues(Tail(values), transformer))
         IN  First(TransformValue(Head(values), transformer))

\* Field::bootstrap: [panic, err, values].
bootstrap(name, values, modifier) ==
    LET Fail(e) == [panic |-> FALSE, err |-> e, values |-> values]
        Done(res) == [panic |-> res.panic, err |-> NoError, values |-> res.values]
    IN  IF values = <<>> THEN Fail(<<"EmptyValues", name>>)
        ELSE IF /\ modifier.match_modifier \in {"contains", "startswith", "endswith"}
                /\ \E i \in 1..Len(values) : values[i].tag # "String"
        THEN Fail(<<"InvalidValueForStringModifier">>)
        ELSE IF modifier.value_transformer # <<>>
        THEN Done(TransformValues(values, modifier.value_transformer[1]))
        ELSE [panic |-> FALSE, err |-> NoError, values |-> values]

BootstrapSuffixes ==
    { <<>>, <<"contains">>, <<"base64">>, <<"base64offset">>, <<"windash">>,
      <<"base64", "utf16le">>, <<"base64offset", "utf16be">>,
      <<"base64offset", "contains">>, <<"windash", "contains", "all">>, <<"gte">> }

BootstrapValues ==
    SeqsUpTo({Str(<<>>), Str(<<"a">>), Str(<<"-", "a">>), IntV(1), Null}, MaxValues)

BootstrapEvents ==
    { EventOf(va, <<>>) :
        va \in { <<>>, <<Scalar(Str(<<"a">>))>>, <<Scalar(Str(<<"Y", "Q">>))>>,
                 <<Scalar(Null)>> } }

\* Field::new on a field name with modifiers and its values, then
\* Field::evaluate of the field on an event.
BootstrapCall ==
    /\ pc = "idle"
    /\ \E words \in BootstrapSuffixes, values \in BootstrapValues,
          event \in BootstrapEvents :
          LET Failed(e) ==
                  /\ ret' = [panic |-> FALSE, err |-> e, values |-> <<>>, r |-> FALSE,
                             empty_branch |-> FALSE]
                  /\ cache' = cache
              Evaluated(field, res) ==
                  /\ ret' = [panic |-> FALSE, err |-> NoError, values |-> field.values,
                             r |-> res.r,
                             empty_branch |->
                                 /\ field.values = <<>>
                                 /\ EventGet(event, field.name) # <<>>
                                 /\ EventGet(event, field.name)[1].kind = "Value"]
                  /\ cache' = res.c
              Booted(m, made) ==
                  IF made.panic
                  THEN /\ ret' = [panic |-> TRUE, err |-> NoError, values |-> <<>>,
                                  r |-> FALSE, empty_branch |-> FALSE]
                       /\ cache' = cache
                  ELSE IF made.err # NoError THEN Failed(made.err)
                  ELSE Evaluated([name |-> NameA, values |-> made.values, modifier |-> m,
                                  exists |-> "None"],
                                 FieldEvaluate(cache,
                                     [name |-> NameA, values |-> made.values, modifier |-> m,
                                      exists |-> "None"], event))
              Parsed(parsed) ==
                  /\ pc' = "returned"
                  /\ arg' = [op |-> "bootstrap", words |-> words, values |-> values,
                             event |-> event, c |-> cache]
                  /\ IF parsed.err # NoError THEN Failed(parsed.err)
                     ELSE Booted(parsed.m, bootstrap(NameA, values, parsed.m))
          IN  Parsed(ModifierFromStr(words))

NextBootstrap == BootstrapCall \/ Continue

SpecBootstrap == Start /\ [][NextBootstrap]_vars

\* C26: after a successful Field construction without the exists modifier
\* the values list is non-empty, also after a value transformer has
\* replaced it, so Field::evaluate never takes its `values is empty`
\* branch for a constructed field.
C26_ValuesNonEmpty ==
    (pc = "returned" /\ arg.op = "bootstrap" /\ ~ret.panic /\ ret.err = NoError) =>
        (ret.values # <<>> /\ ~ret.empty_branch)

-----------------------------------------------------------------------------
(* Threads that match patterns at the same time.  PATTERN_CACHE is a       *)
(* `#[dynamic] static mut`, a map behind a readers-writer lock: read()     *)
(* and write() wait for the lock and hold it until the guard is dropped.   *)
(* Here pc, arg and ret hold one entry for each thread; a thread at        *)
(* "reading" holds the lock shared, a thread at "writing" holds it alone.  *)

Threads == {"t1", "t2"}

StartThreads ==
    /\ cache = EmptyCache
    /\ pc = [t \in Threads |-> "idle"]
    /\ arg = [t \in Threads |-> NoArg]
    /\ ret = [t \in Threads |-> NoRet]

ThreadPatterns == {<<"a", "*">>, <<"?", "b">>}
ThreadTargets == {<<"a", "b">>, <<"b", "a">>}
ThreadPatternTypes == {"Contains", "StartsWith", "EndsWith"}

\* A thread enters pattern_to_regex_match.
ThreadCall(t) ==
    /\ pc[t] = "idle"
    /\ \E pattern_type \in ThreadPatternTypes, pattern \in ThreadPatterns,
          target \in ThreadTargets :
          arg' = [arg EXCEPT ![t] = [op |-> "pattern_to_regex_match",
                                     pattern_type |-> pattern_type, pattern |-> pattern,
                                     target |-> target, cased |-> FALSE]]
    /\ pc' = [pc EXCEPT ![t] = "get"]
    /\ UNCHANGED <<cache, ret>>

\* get_regex: PATTERN_CACHE.read() is granted while no thread writes.
AcquireRead(t) ==
    /\ pc[t] = "get"
    /\ \A u \in Threads : pc[u] # "writing"
    /\ pc' = [pc EXCEPT ![t] = "reading"]
    /\ UNCHANGED <<cache, arg, ret>>

\* get_regex: the lookup under the read guard, which is then dropped.
ReadCache(t) ==
    /\ pc[t] = "reading"
    /\ LET Got(hit) ==
               IF hit # <<>>
               THEN /\ ret' = [ret EXCEPT ![t] = [regex |-> hit[1], compiled |-> FALSE]]
                    /\ pc' = [pc EXCEPT ![t] = "match"]
               ELSE /\ ret' = ret
                    /\ pc' = [pc EXCEPT ![t] = "compile"]
       IN  Got(get_regex(cache, arg[t].pattern))
    /\ UNCHANGED <<cache, arg>>

\* convert_to_regex and Regex::new in insert_regex, outside the lock.
CompilePattern(t) ==
    /\ pc[t] = "compile"
    /\ ret' = [ret EXCEPT ![t] =
                  [regex |-> CompileRegex(arg[t].pattern_type, arg[t].pattern, arg[t].cased),
                   compiled |-> TRUE]]
    /\ pc' = [pc EXCEPT ![t] = "insert"]
    /\ UNCHANGED <<cache, arg>>

\* insert_regex: PATTERN_CACHE.write() is granted while no thread holds
\* the lock.
AcquireWrite(t) ==
    /\ pc[t] = "insert"
    /\ \A u \in Threads : pc[u] \notin {"reading", "writing"}
    /\ pc' = [pc EXCEPT ![t] = "writing"]
    /\ UNCHANGED <<cache, arg, ret>>

\* insert_regex: the insert under the write guard, which is then dropped.
WriteCache(t) ==
    /\ pc[t] = "writing"
    /\ cache' = insert_regex(cache, arg[t].pattern, ret[t].regex)
    /\ pc' = [pc EXCEPT ![t] = "match"]
    /\ UNCHANGED <<arg, ret>>

\* r.is_match(&target)
MatchTarget(t) ==
    /\ pc[t] = "match"
    /\ ret' = [ret EXCEPT ![t] =
                  [regex |-> ret[t].regex, compiled |-> ret[t].compiled,
                   r |-> RegexIsMatch(ret[t].regex, arg[t].target)]]
    /\ pc' = [pc EXCEPT ![t] = "returned"]
    /\ UNCHANGED <<cache, arg>>

\* The thread goes on to its next call.
ThreadContinue(t) ==
    /\ pc[t] = "returned"
    /\ pc' = [pc EXCEPT ![t] = "idle"]
    /\ arg' = [arg EXCEPT ![t] = NoArg]
    /\ ret' = [ret EXCEPT ![t] = NoRet]
    /\ UNCHANGED cache

NextThreads ==
    \E t \in Threads :
        \/ ThreadCall(t)
        \/ AcquireRead(t)
        \/ ReadCache(t)
        \/ CompilePattern(t)
        \/ AcquireWrite(t)
        \/ WriteCache(t)
        \/ MatchTarget(t)
        \/ ThreadContinue(t)

SpecThreads == StartThreads /\ [][NextThreads]_vars

\* A thread that writes the cache is alone with it.
LockExcludes ==
    \A t, u \in Threads :
        (t # u /\ pc[t] = "writing") => pc[u] \notin {"reading", "writing"}

\* The result of the call of thread t, run alone from an empty cache.
AloneResult(t) ==
    pattern_to_regex_match(EmptyCache, arg[t].pattern_type, arg[t].pattern,
                           arg[t].target, arg[t].cased).r

\* C27: with several threads matching at once the cache is read and written
\* under its lock only, and in every interleaving each call returns the
\* boolean it returns when run alone from an empty cache.
C27_Threads ==
    /\ LockExcludes
    /\ \A t \in Threads : pc[t] = "returned" => ret[t].r = AloneResult(t)

-----------------------------------------------------------------------------
(* A closing parenthesis without an opening one.                           *)

\* The position of the first `)` that closes nothing, 0 if there is none.
RECURSIVE StrayFrom(_, _, _)
StrayFrom(words, k, depth) ==
    IF k > Len(words) THEN 0
    ELSE IF words[k] = ParenOpen THEN StrayFrom(words, k + 1, depth + 1)
    ELSE IF words[k] = ParenClose
    THEN IF depth = 0 THEN k ELSE StrayFrom(words, k + 1, depth - 1)
    ELSE StrayFrom(words, k + 1, depth)

BeforeStray(words) == SubSeq(words, 1, StrayFrom(words, 1, 0) - 1)

\* The words are an expression of names, not, and, or and parentheses that
\* is accepted on its own, then a `)` that closes nothing, then anything.
StrayAfterExpression(words) ==
    /\ StrayFrom(words, 1, 0) > 1
    /\ ~LoneQuantifier(words)
    /\ ~AstNew(Join(BeforeStray(words))).panic
    /\ AstNew(Join(BeforeStray(words))).err = NoError

\* C28: when a well-formed expression is followed at top level by a `)`
\* without a matching `(`, Ast::new succeeds with the AST of the expression
\* before that `)`; the tokens from that `)` on take no part in the AST nor
\* in the check for undefined identifiers.
C28_StrayParenthesis ==
    /\ (ParseReturned /\ StrayAfterExpression(arg.words)) =>
          ret = AstNew(Join(BeforeStray(arg.words)))
    /\ (pc = "returned" /\ arg.op = "new" /\ StrayAfterExpression(arg.words)) =>
          /\ ~ret.panic
          /\ ret.err = DetectionNew(SelectionMapOver(SeqRange(arg.keys)), arg.keys,
                                    Join(BeforeStray(arg.words))).err
          /\ ret.d.ast = AstNew(Join(BeforeStray(arg.words))).ast

\* Reached: a detection over the selection x alone is built from `x ) y`,
\* y being no selection.
C28_Witness ==
    /\ pc = "returned"
    /\ arg.op = "new"
    /\ arg.words = <<NameX, ParenClose, NameY>>
    /\ arg.keys = <<NameX>>
    /\ ret.err = NoError
    /\ ret.d.ast = Leaf("Selection", NameX)

\* Reached: `( x or y ) and z )` parses to And(Or(x, y), z).
StrayExampleParsed ==
    /\ ParseReturned
    /\ arg.words = <<ParenOpen, NameX, KwOr, NameY, ParenClose, KwAnd, NameZ, ParenClose>>
    /\ ret.err = NoError
    /\ ret.ast = AndOf(OrOf(Leaf("Selection", NameX), Leaf("Selection", NameY)),
                       Leaf("Selection", NameZ))

-----------------------------------------------------------------------------
(* Backslashes in compare-values.                                          *)

EscapeTargets ==
    {Str(s) : s \in SeqsUpTo({"a", "*", "\\"}, MaxTarget)
                       \cup {<<"?">>, <<"a", "?">>, <<"\\", "?">>}}

\* Compare-values with an escaped `*`, `?` or backslash, with a backslash
\* before another character and at the end, without and with an unescaped
\* wildcard.
EscapePatterns ==
    {Str(s) : s \in {<<"\\", "*">>, <<"\\", "?">>, <<"\\", "\\">>,
                     <<"\\", "a">>, <<"a", "\\">>, <<"a", "\\", "*">>,
                     <<"\\", "*", "*">>, <<"\\", "\\", "*">>}}

CompareEscape == ValueCall(EscapeTargets, EscapePatterns)

NextEscape == CompareEscape \/ Continue

SpecEscape == Start /\ [][NextEscape]_vars

\* The pattern a compare-value stands for when a backslash escapes a
\* following `*`, `?` or backslash and is a literal anywhere else.
RECURSIVE Unescaped(_)
Unescaped(chars) ==
    IF chars = <<>> THEN <<>>
    ELSE LET ch == Head(chars)
             rest == Tail(chars)
         IN  IF ch = "\\" /\ rest # <<>> /\ Head(rest) \in {"*", "?", "\\"}
             THEN <<Lit(Head(rest))>> \o Unescaped(Tail(rest))
             ELSE IF ch = "*" THEN <<AnyRun>> \o Unescaped(rest)
             ELSE IF ch = "?" THEN <<AnyChar>> \o Unescaped(rest)
             ELSE <<Lit(ch)>> \o Unescaped(rest)

EscapeExpected(op, target, pattern, cased) ==
    RegexIsMatch([ci |-> ~cased,
                  anchS |-> op \in {"starts_with", "is_equal"},
                  anchE |-> op \in {"ends_with", "is_equal"},
                  toks |-> Unescaped(pattern)],
                 target)

\* C29: in a string compare-value a backslash escapes the next character
\* only when that is `*`, `?` or a backslash: the escaped character is
\* matched literally and the escaping backslash is no part of the matched
\* text, whether or not the pattern has an unescaped wildcard as well; a
\* backslash before any other character is a literal backslash.  Stated of
\* calls that find the cache empty; is_equal is taken on compare-values
\* without an unescaped wildcard.
C29_BackslashEscapes ==
    (/\ pc = "returned"
     /\ arg.c = EmptyCache
     /\ ~(arg.op = "is_equal" /\ contains_unescaped_wildcards(arg.other.v))) =>
        ret = EscapeExpected(arg.op, arg.self.v, arg.other.v, arg.cased)

-----------------------------------------------------------------------------
(* Keys cut at some of their dots.                                         *)

\* Following the literal keys of the path from the map m, through maps,
\* reaches a value.
RECURSIVE Reaches(_, _)
Reaches(m, path) ==
    /\ path # <<>>
    /\ Head(path) \in DOMAIN m
    /\ \/ Len(path) = 1
       \/ /\ m[Head(path)].kind = "Map"
          /\ Reaches(m[Head(path)].m, Tail(path))

GetReturned == pc = "returned" /\ arg.op = "get"

\* The ways to cut the key at some of its dots.
CutsOf(key) ==
    {CutAt(SegmentsOf(key), cuts, 1) : cuts \in SUBSET (1..(Len(SegmentsOf(key)) - 1))}

\* The original statement of C30: Event.get(k) finds a value whenever k can
\* be cut at some of its dots into segments k1 ... kn, a segment possibly
\* with dots of its own, that lead from a top-level key through nested maps
\* to a value.
C30_AnyCut ==
    (GetReturned /\ \E path \in CutsOf(arg.key) : Reaches(arg.event, path)) =>
        ret # <<>>

\* The cut of the segments after each of the first i: only the last part
\* keeps dots.
PlainHeadCut(segs, i) ==
    SubSeq(segs, 1, i) \o <<JoinWith(SubSeq(segs, i + 1, Len(segs)), ".")>>

\* C30: Event.get(k) finds a value whenever k can be cut at some of its dots
\* into segments k1 ... kn, of which only the last may itself contain dots,
\* that lead from a top-level key through nested maps to a value.
C30_PlainHeadCut ==
    GetReturned =>
        LET Found(segs) ==
                (\E i \in 0..(Len(segs) - 1) :
                     Reaches(arg.event, PlainHeadCut(segs, i))) => ret # <<>>
        IN  Found(SegmentsOf(arg.key))

\* Reached: a.b.a is found in {a: {b: {a: v}}}, where no suffix of the key
\* is a literal key before the last level.
C30_Witness ==
    /\ GetReturned
    /\ arg.key = <<"a", ".", "b", ".", "a">>
    /\ arg.event = EventAt({<< <<"a">>, <<"b">>, <<"a">> >>}, <<>>)
    /\ ret = <<Scalar(Str(<<"a", "/", "b", "/", "a">>))>>

\* Reached: a.b.a is not found in {a.b: {a: v}}.
DottedHeadMissed ==
    /\ GetReturned
    /\ arg.key = <<"a", ".", "b", ".", "a">>
    /\ arg.event = EventAt({<< <<"a", ".", "b">>, <<"a">> >>}, <<>>)
    /\ ret = <<>>

=============================================================================
